---------------------------- MODULE Spec2Model ----------------------------
(***************************************************************************)
(* State-machine model of the savasan_iha control core: the mission        *)
(* priority manager, the QR command processor, the mission state machine,  *)
(* the target-lock evaluator, the Kalman multi-object tracker, the         *)
(* no-fly-zone controller, the servo controller with its actuation thread, *)
(* the camera controller and its PID controllers, the kamikaze controller,  *)
(* the escape controller and the main loop that feeds each frame to the    *)
(* QR processor, the mission state machine, the tracker and the lock       *)
(* evaluator.                                                              *)
(* Every component is an object with its own fields; each public method is *)
(* one action, and the servo controller's methods and loop are one action  *)
(* per atomic step.  Each component has its own specification              *)
(* (SpecManager, SpecQr, SpecController, SpecCommand, SpecLock,            *)
(* SpecTracker, SpecNfz, SpecServo, SpecPid, SpecKamikaze, SpecEscape,     *)
(* SpecCamera, SpecPipeline) in which the other components stay in their   *)
(* initial state.  SpecHistory is the mission state machine started with   *)
(* a transition history one entry short of its cap, and SpecStarvation is  *)
(* the mission manager under weak fairness of update and of the caller's   *)
(* completion reports.                                                     *)
(***************************************************************************)
EXTENDS Integers, Sequences, FiniteSets, TLC

(***************************************************************************)
(* Bounds of the model.                                                    *)
(***************************************************************************)
\* number of create_mission calls explored
MaxMissions == 3
\* last clock reading explored by the command path (half-second ticks)
MaxCommandTime == 5
\* number of commands the QR processor accepts in a run
MaxAccepted == 3
\* number of state transitions of the mission controller in a run
MaxTransitions == 2
\* number of entries dropped from a full transition history in a run
MaxDropped == 2
\* last clock reading explored by the lock evaluator (half-second ticks)
MaxLockTime == 12
\* number of frames given to the tracker in a run
MaxFrames == 5
\* max_disappeared given to the tracker's constructor (60 when omitted)
MaxDisappeared == 2
\* last clock reading explored by the no-fly-zone controller (half-second ticks)
MaxZoneTime == 4
\* max_violation_time given to the no-fly-zone controller's constructor, in
\* half-second ticks (30.0 seconds when omitted)
MaxViolationTime == 2
\* number of set_angles calls in a run
MaxSetAngles == 2
\* number of iterations of the actuation loop, over all its threads, in a run
MaxTicks == 2
\* last clock reading explored by the PID controller (half-second ticks)
MaxPidTime == 4
\* number of frames the main loop processes in a run
MaxPipelineFrames == 5
\* last clock reading explored by the main loop (half-second ticks)
MaxPipelineTime == 12
\* the main loop's clock is read every PipelineClockStep ticks
PipelineClockStep == 5
\* number of commands the QR processor accepts in a run of the main loop
MaxPipelineCommands == 2

\* EscapeController: the clock stops here
MaxEscapeTime == 2

\* EscapeController: no update call once the trajectory is longer than this
MaxEscapePoints == 2

\* CameraController: the clock stops here
MaxCameraTime == 4

\* CameraController: no calculate call once the history is longer than this
MaxCameraHistory == 2

(***************************************************************************)
(* Generic helpers.                                                        *)
(***************************************************************************)
\* Python's None
None == "None"

\* None in a field that otherwise holds a clock reading
NoTime == -1

\* None in a field that otherwise holds a track id
NoTrack == -1

SeqRange(s) == {s[i] : i \in 1..Len(s)}

SeqRemove(s, x) == SelectSeq(s, LAMBDA e: e # x)

(***************************************************************************)
(* vision/mission/mission_types.py                                         *)
(***************************************************************************)
MissionPriority == {"CRITICAL", "HIGH", "MEDIUM", "LOW"}

\* Enum auto() numbers the members 1, 2, 3, 4 in declaration order.
PriorityValue(p) ==
    CASE p = "CRITICAL" -> 1
      [] p = "HIGH"     -> 2
      [] p = "MEDIUM"   -> 3
      [] p = "LOW"      -> 4

MissionType == {"SCAN", "TRACK", "LOCK", "KAMIKAZE", "ESCAPE", "RETURN_HOME"}

get_default_priority(t) ==
    CASE t = "SCAN"        -> "LOW"
      [] t = "TRACK"       -> "MEDIUM"
      [] t = "LOCK"        -> "HIGH"
      [] t = "KAMIKAZE"    -> "HIGH"
      [] t = "ESCAPE"      -> "CRITICAL"
      [] t = "RETURN_HOME" -> "MEDIUM"

MissionStatus == {"PENDING", "ACTIVE", "COMPLETED", "FAILED", "INTERRUPTED"}

(***************************************************************************)
(* State.                                                                  *)
(***************************************************************************)
VARIABLES
    \* MissionManager
    missions,          \* every MissionData object created, indexed by mission id
    active_missions,   \* the ids that are keys of the dict, in insertion order
    mission_history,   \* the list of archived missions (ids)
    current_mission,   \* id of the current mission, 0 for None
    manager_call,      \* the last MissionManager method called
    \* wall clock, time.time(), in ticks of half a second
    now,
    \* QRProcessor
    last_command,      \* QRCommand or None
    last_command_time, \* clock reading or NoTime
    command_history,   \* list of command_info
    qr_call,           \* the last process_qr_data call: its text and outcome
    guard_result,      \* what process_command returned for the command kept in
                       \* last_command, None when it was not passed on
    \* MissionController
    current_state,
    previous_state,
    state_change_time,
    mission_data,      \* dict, as a set of <<key, value>> pairs
    state_history,     \* list of state_info
    controller_call,   \* the last MissionController call and its return value
    history_dropped,   \* number of state_history.pop(0) made so far
    \* TargetLockSystem
    lock_hysteresis,
    lock_start_time,   \* clock reading or NoTime
    current_target_id, \* track id or NoTrack
    is_locked,
    lock_duration,
    lock_duration_elapsed,
    uav_counter,
    tracked_uavs,      \* dict track id -> 'uav_id' label, as <<id, label>> pairs
    evaluated,         \* the track ids update has evaluated, in order of first evaluation
    lock_call,         \* the last TargetLockSystem call and what it evaluated
    \* KalmanTracker
    next_object_id,
    objects,           \* dict id -> (centroid, kf), as records in insertion order
    disappeared,       \* dict id -> frames since the last match
    frames,            \* the detection lists given to update so far
    unmatched_calls,   \* per id ever registered: the consecutive update calls,
                       \* up to now, in which the track matched no detection
    tracker_call,      \* the last KalmanTracker call, the dict it returned and the
                       \* ids and centroids stored when it was made
    \* NoFlyZoneController
    zones,             \* dict zone_id -> NoFlyZone
    total_penalty_points,  \* in half points
    current_violations,
    nfz_call,          \* the last update call of the controller and the dict it returned
    nfz_previous,      \* the previous update call: its clock reading and the zones
                       \* it found the UAV in
    inside_time,       \* per zone: the sum of the gaps between consecutive update
                       \* calls that both found the UAV in the zone
    active_throughout, \* per zone: active at every update call since it was added
    left_and_returned, \* per zone: found inside again after having been found outside
    inactive_elapsed,  \* per zone: the clock advanced with the zone inactive since
                       \* the reading kept in last_violation_check
    \* ServoController; angles in tenths of a degree, pulse widths in microseconds
    simulation_mode,
    current_pan,
    current_tilt,
    target_pan,
    target_tilt,
    is_running,
    update_thread,     \* the thread held, or None
    loops,             \* per thread created by start(): its position in
                       \* _update_servos and its locals
    servo_main,        \* the calling thread: its position in start/stop/set_angles
    pulsewidth,        \* pigpio: the pulse width last set on each pin
    pi_connected,      \* pigpio: FALSE once pi.stop() was called
    stop_calls,        \* the actuator-interface calls issued by the last stop()
    set_angles_calls,  \* number of set_angles calls begun
    target_writers,    \* the set_angles call that wrote target_pan, target_tilt
    servo_ticks,       \* number of loop iterations completed
    last_tick,         \* the set_angles calls whose targets the last iteration used
    \* PIDController (the camera controller's pan_pid); errors in pixels, the
    \* integral in pixel ticks, outputs in thousandths of a degree per second
    previous_error,
    integral,
    last_time,         \* clock reading or NoTime
    pid_call,          \* the last PIDController call, its return value, and the
                       \* number of compute calls since construction or reset
    \* KamikazeController
    qr_read_successful,
    last_distance,     \* the square of _last_distance, or NoDistance before the
                       \* attribute exists
    kamikaze_call,     \* the last KamikazeController call, its inputs and result
    \* EscapeController; positions in metres
    is_escaping,
    escape_start_time, \* clock reading or NoTime
    escape_trajectory,
    last_perp,         \* 1 or -1, or 0 before the attribute exists
    escape_call,       \* the last EscapeController call, its inputs and result
    \* CameraController; positions in pixels, rates in thousandths of a degree
    \* per second, angles in thousandths of a degree per second times ticks
    pan_pid,           \* the state of pan_pid
    tilt_pid,          \* the state of tilt_pid
    is_tracking,
    last_target_position,  \* a position or None
    current_pan_angle,
    current_tilt_angle,
    tracking_history,
    last_update_time,  \* clock reading or NoTime
    camera_call        \* the last CameraController call, its inputs and result

managerVars == <<missions, active_missions, mission_history, current_mission,
                 manager_call>>

qrVars == <<last_command, last_command_time, command_history, qr_call,
            guard_result>>

controllerVars == <<current_state, previous_state, state_change_time,
                    mission_data, state_history, controller_call,
                    history_dropped>>

lockVars == <<lock_hysteresis, lock_start_time, current_target_id, is_locked,
              lock_duration, lock_duration_elapsed, uav_counter, tracked_uavs,
              evaluated,
              lock_call>>

trackerVars == <<next_object_id, objects, disappeared, frames, unmatched_calls,
                 tracker_call>>

nfzVars == <<zones, total_penalty_points, current_violations, nfz_call,
             nfz_previous, inside_time, active_throughout, left_and_returned,
             inactive_elapsed>>

servoVars == <<simulation_mode, current_pan, current_tilt, target_pan, target_tilt,
               is_running, update_thread, loops, servo_main, pulsewidth,
               pi_connected, stop_calls, set_angles_calls, target_writers,
               servo_ticks, last_tick>>

pidVars == <<previous_error, integral, last_time, pid_call>>

kamikazeVars == <<qr_read_successful, last_distance, kamikaze_call>>

escapeVars == <<is_escaping, escape_start_time, escape_trajectory, last_perp,
               escape_call>>

cameraVars == <<pan_pid, tilt_pid, is_tracking, last_target_position,
               current_pan_angle, current_tilt_angle, tracking_history,
               last_update_time, camera_call>>

vars == <<managerVars, now, qrVars, controllerVars, lockVars, trackerVars, nfzVars,
          servoVars, pidVars, kamikazeVars, escapeVars, cameraVars>>

(***************************************************************************)
(* vision/mission/mission_manager.py                                       *)
(***************************************************************************)
\* The manager's fields as one value, so that methods calling methods compose.
ManagerState ==
    [missions |-> missions, active_missions |-> active_missions,
     mission_history |-> mission_history, current_mission |-> current_mission]

\* (mission_type, priority argument) pairs passed to create_mission
CreateInputs ==
    {<<t, None>> : t \in MissionType}
        \cup {<<"SCAN", "CRITICAL">>, <<"ESCAPE", "LOW">>, <<"TRACK", "MEDIUM">>}

create_mission(M, mission_type, priority) ==
    LET prio == IF priority = None THEN get_default_priority(mission_type)
                ELSE priority
        id == Len(M.missions) + 1
        mission == [mission_type |-> mission_type, priority |-> prio,
                    status |-> "PENDING"]
    IN [M EXCEPT !.missions = Append(@, mission),
                 !.active_missions = Append(@, id)]

\* an archiving that leaves current_mission as it was
update_mission_status_keeps_current(M, mission_id, new_status) ==
    IF mission_id \notin SeqRange(M.active_missions)
    THEN M
    ELSE LET M1 == [M EXCEPT !.missions[mission_id].status = new_status]
         IN IF new_status \in {"COMPLETED", "FAILED"}
            THEN [M1 EXCEPT !.mission_history = Append(@, mission_id),
                            !.active_missions = SeqRemove(@, mission_id)]
            ELSE M1

\* MissionData.update_status, then the manager's archiving
update_mission_status(M, mission_id, new_status) ==
    IF mission_id \notin SeqRange(M.active_missions)
    THEN M
    ELSE LET M1 == [M EXCEPT !.missions[mission_id].status = new_status]
         IN IF new_status \in {"COMPLETED", "FAILED"}
            THEN [M1 EXCEPT
                    !.mission_history = Append(@, mission_id),
                    !.active_missions = SeqRemove(@, mission_id),
                    !.current_mission = IF @ # 0 /\ @ = mission_id THEN 0 ELSE @]
            ELSE M1

\* max(pending_missions, key=lambda m: m.priority.value): the first mission, in
\* the dict's order, whose priority value is the largest; 0 for None
get_highest_priority_mission(M) ==
    LET pending == SelectSeq(M.active_missions,
                             LAMBDA i: M.missions[i].status = "PENDING")
        val(k) == PriorityValue(M.missions[pending[k]].priority)
    IN IF Len(M.active_missions) = 0 \/ Len(pending) = 0
       THEN 0
       ELSE pending[CHOOSE k \in 1..Len(pending) :
                       /\ \A j \in 1..Len(pending) : val(j) <= val(k)
                       /\ \A j \in 1..(k - 1) : val(j) < val(k)]

interrupt_current_mission(M) ==
    IF M.current_mission # 0
    THEN [update_mission_status(M, M.current_mission, "INTERRUPTED")
             EXCEPT !.current_mission = 0]
    ELSE M

update(M) ==
    LET highest_priority == get_highest_priority_mission(M)
    IN IF highest_priority = 0
       THEN M
       ELSE IF M.current_mission = 0
       THEN [M EXCEPT !.missions[highest_priority].status = "ACTIVE",
                      !.current_mission = highest_priority]
       ELSE IF PriorityValue(M.missions[highest_priority].priority)
                 > PriorityValue(M.missions[M.current_mission].priority)
       THEN LET M1 == interrupt_current_mission(M)
            IN [M1 EXCEPT !.missions[highest_priority].status = "ACTIVE",
                          !.current_mission = highest_priority]
       ELSE M

SetManager(M) ==
    /\ missions' = M.missions
    /\ active_missions' = M.active_missions
    /\ mission_history' = M.mission_history
    /\ current_mission' = M.current_mission

CreateMission ==
    \E inp \in CreateInputs :
        /\ Len(missions) < MaxMissions
        /\ SetManager(create_mission(ManagerState, inp[1], inp[2]))
        /\ manager_call' = "create_mission"
        /\ UNCHANGED <<now, qrVars, controllerVars, lockVars, trackerVars, nfzVars, servoVars, pidVars, kamikazeVars,
                       escapeVars, cameraVars>>

\* mission ids are uuid4 strings: 0 stands for an id the manager never issued
UpdateMissionStatus ==
    \E id \in 0..Len(missions), st \in MissionStatus :
        /\ SetManager(update_mission_status(ManagerState, id, st))
        /\ manager_call' = "update_mission_status"
        /\ UNCHANGED <<now, qrVars, controllerVars, lockVars, trackerVars, nfzVars, servoVars, pidVars, kamikazeVars,
                       escapeVars, cameraVars>>

Update ==
    /\ SetManager(update(ManagerState))
    /\ manager_call' = "update"
    /\ UNCHANGED <<now, qrVars, controllerVars, lockVars, trackerVars, nfzVars, servoVars, pidVars, kamikazeVars,
                   escapeVars, cameraVars>>

ManagerInit ==
    /\ missions = <<>>
    /\ active_missions = <<>>
    /\ mission_history = <<>>
    /\ current_mission = 0
    /\ manager_call = "init"

ManagerNext == CreateMission \/ UpdateMissionStatus \/ Update

\* the owner reports the end of a mission that has been started:
\* update_mission_status(id, COMPLETED) or update_mission_status(id, FAILED)
FinishStarted ==
    \E id \in SeqRange(active_missions), st \in {"COMPLETED", "FAILED"} :
        /\ missions[id].status \in {"ACTIVE", "INTERRUPTED"}
        /\ SetManager(update_mission_status(ManagerState, id, st))
        /\ manager_call' = "update_mission_status"
        /\ UNCHANGED <<now, qrVars, controllerVars, lockVars, trackerVars, nfzVars,
                       servoVars, pidVars, kamikazeVars,
                       escapeVars, cameraVars>>

\* create_mission(MissionType.SCAN, priority=p) for the most urgent, an
\* intermediate and the least urgent priority
CreatePrioritized ==
    \E priority \in {"CRITICAL", "HIGH", "LOW"} :
        /\ Len(missions) < MaxMissions
        /\ SetManager(create_mission(ManagerState, "SCAN", priority))
        /\ manager_call' = "create_mission"
        /\ UNCHANGED <<now, qrVars, controllerVars, lockVars, trackerVars, nfzVars,
                       servoVars, pidVars, kamikazeVars,
                       escapeVars, cameraVars>>

StarvationNext == CreatePrioritized \/ Update \/ FinishStarted

(***************************************************************************)
(* Python dicts with string keys, as sets of <<key, value>> pairs.         *)
(***************************************************************************)
DictKeys(d) == {kv[1] : kv \in d}

\* d.get(k): the value under k, None when k is not a key
DictGet(d, k) == IF k \in DictKeys(d) THEN (CHOOSE kv \in d : kv[1] = k)[2] ELSE None

\* d.update(e)
DictUpdate(d, e) == {kv \in d : kv[1] \notin DictKeys(e)} \cup e

\* d[k] = v
DictSet(d, k, v) == DictUpdate(d, {<<k, v>>})

(***************************************************************************)
(* detection/qr/qr_processor.py                                            *)
(***************************************************************************)
QRCommand == {"KAMIKAZE", "ESCAPE", "LOCK", "MISSION_UPDATE", "STATUS_REQUEST"}

\* self.command_cooldown = 2.0 seconds, in half-second ticks
CommandCooldown == 4

\* the command history keeps the last 50 commands
CommandHistoryCap == 50

\* a parsed JSON object: the names of its members, and the values of the two
\* members the processor reads (meaningful only for the members it has)
JsonObject(members, command, parameters) ==
    [kind |-> "object", members |-> members, command |-> command,
     parameters |-> parameters]

\* a member value that is not a string (no QRCommand value equals it)
NonString == "<non-string>"

\* parameter objects carried by the commands
ParamInputs == {{}, {<<"target_id", "UAV_001">>}, {<<"direction", "NORTH">>}}

dumps_parameters(p) ==
    CASE p = {} -> "{}"
      [] p = {<<"target_id", "UAV_001">>} -> "{\"target_id\": \"UAV_001\"}"
      [] p = {<<"direction", "NORTH">>} -> "{\"direction\": \"NORTH\"}"

\* json.dumps({'command': command_type.value, 'parameters': parameters or {}})
create_qr_command(command_type, parameters) ==
    "{\"command\": \"" \o command_type \o "\", \"parameters\": "
        \o dumps_parameters(parameters) \o "}"

CommandTexts == {create_qr_command(c, p) : c \in QRCommand, p \in ParamInputs}

\* texts that are no well-formed command
MalformedTexts ==
    {"KAMIKAZE", "{\"command\": ", "42", "null", "\"hello\"", "\"command\"",
     "[1, 2]", "[\"command\"]", "{}", "{\"parameters\": {}}",
     "{\"command\": \"FIRE\"}", "{\"command\": 7}"}

\* a command without the optional 'parameters' member
BareCommandTexts == {"{\"command\": \"ESCAPE\"}"}

\* the texts presented to the processor: each command with one parameter
\* object, a command without parameters, and the malformed texts
QrTexts ==
    {create_qr_command("KAMIKAZE", {<<"target_id", "UAV_001">>}),
     create_qr_command("LOCK", {<<"target_id", "UAV_001">>}),
     create_qr_command("ESCAPE", {<<"direction", "NORTH">>}),
     create_qr_command("MISSION_UPDATE", {<<"target_id", "UAV_001">>}),
     create_qr_command("STATUS_REQUEST", {})}
        \cup BareCommandTexts \cup MalformedTexts

\* json.loads: the parsed value, or the JSONDecodeError
json_loads(text) ==
    IF text \in CommandTexts
    THEN LET cp == CHOOSE cp \in QRCommand \X ParamInputs :
                       create_qr_command(cp[1], cp[2]) = text
         IN JsonObject({"command", "parameters"}, cp[1], cp[2])
    ELSE CASE text = "KAMIKAZE" -> [kind |-> "JSONDecodeError"]
           [] text = "{\"command\": " -> [kind |-> "JSONDecodeError"]
           [] text = "42" -> [kind |-> "number"]
           [] text = "null" -> [kind |-> "null"]
           [] text = "\"hello\"" -> [kind |-> "string", has_command |-> FALSE]
           [] text = "\"command\"" -> [kind |-> "string", has_command |-> TRUE]
           [] text = "[1, 2]" -> [kind |-> "list", has_command |-> FALSE]
           [] text = "[\"command\"]" -> [kind |-> "list", has_command |-> TRUE]
           [] text = "{}" ->
                JsonObject({}, NonString, {})
           [] text = "{\"parameters\": {}}" ->
                JsonObject({"parameters"}, NonString, {})
           [] text = "{\"command\": \"FIRE\"}" ->
                JsonObject({"command"}, "FIRE", {})
           [] text = "{\"command\": 7}" ->
                JsonObject({"command"}, NonString, {})
           [] text = "{\"command\": \"ESCAPE\"}" ->
                JsonObject({"command"}, "ESCAPE", {})

\* The processor's fields as one value.
QrState ==
    [last_command |-> last_command, last_command_time |-> last_command_time,
     command_history |-> command_history]

\* mutant: the comparison of the cooldown test is inverted
InCooldownInverted(Q, command_type, current_time) ==
    /\ Q.last_command = command_type
    /\ Q.last_command_time # NoTime /\ Q.last_command_time # 0
    /\ current_time - Q.last_command_time > CommandCooldown

\* the cooldown test of lines 51-53; a clock reading of 0 is falsy
InCooldown(Q, command_type, current_time) ==
    /\ Q.last_command = command_type
    /\ Q.last_command_time # NoTime /\ Q.last_command_time # 0
    /\ current_time - Q.last_command_time < CommandCooldown

\* process_qr_data: [outcome, info, qr], outcome being "None" (returns None),
\* "command" (returns info) or "TypeError" (raises it: only JSONDecodeError
\* is caught)
process_qr_data(Q, qr_data, current_time) ==
    LET data == json_loads(qr_data)
        none == [outcome |-> "None", info |-> None, qr |-> Q]
        raise == [outcome |-> "TypeError", info |-> None, qr |-> Q]
    IN CASE data.kind = "JSONDecodeError" -> none
         \* 'command' not in data: a number or None is not iterable
         [] data.kind \in {"number", "null"} -> raise
         \* substring or element test, then data['command'] on a str or list
         [] data.kind \in {"string", "list"} ->
                IF data.has_command THEN raise ELSE none
         [] data.kind = "object" ->
                IF "command" \notin data.members THEN none
                ELSE IF data.command \notin QRCommand THEN none
                ELSE IF InCooldown(Q, data.command, current_time) THEN none
                ELSE LET command_info ==
                             [type |-> data.command,
                              timestamp |-> current_time,
                              parameters |-> IF "parameters" \in data.members
                                             THEN data.parameters ELSE {}]
                         \* the history is modelled by the type and timestamp of
                         \* its entries; nothing reads their other members
                         appended == Append(Q.command_history,
                                            [type |-> command_info.type,
                                             timestamp |-> command_info.timestamp])
                     IN [outcome |-> "command", info |-> command_info,
                         qr |-> [last_command |-> data.command,
                                 last_command_time |-> current_time,
                                 command_history |->
                                     IF Len(appended) > CommandHistoryCap
                                     THEN Tail(appended) ELSE appended]]

clear_history(Q) ==
    [last_command |-> None, last_command_time |-> NoTime, command_history |-> <<>>]

SetQr(Q) ==
    /\ last_command' = Q.last_command
    /\ last_command_time' = Q.last_command_time
    /\ command_history' = Q.command_history

QrInit ==
    /\ last_command = None
    /\ last_command_time = NoTime
    /\ command_history = <<>>
    /\ qr_call = [op |-> "init", text |-> None, outcome |-> "None"]
    /\ guard_result = None

(***************************************************************************)
(* vision/mission/mission_controller.py                                    *)
(***************************************************************************)
MissionState == {"IDLE", "SEARCHING", "TRACKING", "LOCKING", "LOCKED",
                 "KAMIKAZE", "ESCAPING", "EMERGENCY"}

\* the state history keeps the last 100 state changes
StateHistoryCap == 100

ControllerState ==
    [current_state |-> current_state, previous_state |-> previous_state,
     state_change_time |-> state_change_time, mission_data |-> mission_data,
     state_history |-> state_history]

\* a history that is never shortened
update_state_uncapped(K, new_state, t) ==
    IF new_state # K.current_state
    THEN [K EXCEPT !.previous_state = K.current_state,
                   !.current_state = new_state,
                   !.state_change_time = t,
                   !.state_history =
                       Append(@, [state |-> new_state, timestamp |-> t,
                                  previous_state |-> K.current_state])]
    ELSE K

update_state(K, new_state, t) ==
    IF new_state # K.current_state
    THEN LET state_info == [state |-> new_state, timestamp |-> t,
                            previous_state |-> K.current_state]
             appended == Append(K.state_history, state_info)
         IN [K EXCEPT !.previous_state = K.current_state,
                      !.current_state = new_state,
                      !.state_change_time = t,
                      !.state_history = IF Len(appended) > StateHistoryCap
                                        THEN Tail(appended) ELSE appended]
    ELSE K

\* the states from which each guarded command is accepted
KamikazeAllowedFrom == {"LOCKED", "TRACKING"}

EscapeAllowedFrom == MissionState \ {"EMERGENCY"}

\* mutant: LOCK is also accepted while searching
LockAllowedFromSearching == {"TRACKING", "SEARCHING"}

LockAllowedFrom == {"TRACKING"}

\* process_command: [result, ctl]
process_command(K, command_info, t) ==
    LET command_type == command_info.type
        parameters == command_info.parameters
        rejected == [result |-> FALSE, ctl |-> K]
    IN CASE command_type = "KAMIKAZE" ->
                IF K.current_state \in KamikazeAllowedFrom
                THEN [result |-> TRUE,
                      ctl |-> [update_state(K, "KAMIKAZE", t) EXCEPT
                                 !.mission_data = DictSet(@, "kamikaze_target",
                                                          DictGet(parameters, "target_id"))]]
                ELSE rejected
         [] command_type = "ESCAPE" ->
                IF K.current_state \in EscapeAllowedFrom
                THEN [result |-> TRUE,
                      ctl |-> [update_state(K, "ESCAPING", t) EXCEPT
                                 !.mission_data = DictSet(@, "escape_direction",
                                                          DictGet(parameters, "direction"))]]
                ELSE rejected
         [] command_type = "LOCK" ->
                IF K.current_state \in LockAllowedFrom
                THEN [result |-> TRUE,
                      ctl |-> [update_state(K, "LOCKING", t) EXCEPT
                                 !.mission_data = DictSet(@, "lock_target",
                                                          DictGet(parameters, "target_id"))]]
                ELSE rejected
         [] command_type = "MISSION_UPDATE" ->
                [result |-> TRUE,
                 ctl |-> [K EXCEPT !.mission_data = DictUpdate(@, parameters)]]
         [] command_type = "STATUS_REQUEST" -> [result |-> TRUE, ctl |-> K]
         [] OTHER -> rejected

reset(K, t) ==
    [current_state |-> "IDLE", previous_state |-> None, state_change_time |-> t,
     mission_data |-> {}, state_history |-> <<>>]

\* 1 when the step from the controller's fields to K dropped the oldest entry
DroppedBy(K) ==
    IF /\ Len(state_history) = StateHistoryCap
       /\ K.state_history # <<>>
       /\ K.state_history # state_history
    THEN 1 ELSE 0

\* the histories explored: short ones, and ones that have reached the cap
HistoryExplored(K) ==
    \/ Len(K.state_history) <= MaxTransitions
    \/ /\ Len(K.state_history) >= StateHistoryCap - 1
       /\ history_dropped + DroppedBy(K) <= MaxDropped

SetController(K) ==
    /\ history_dropped' = history_dropped + DroppedBy(K)
    /\ current_state' = K.current_state
    /\ previous_state' = K.previous_state
    /\ state_change_time' = K.state_change_time
    /\ mission_data' = K.mission_data
    /\ state_history' = K.state_history

ControllerInit ==
    /\ current_state = "IDLE"
    /\ previous_state = None
    /\ state_change_time = now
    /\ mission_data = {}
    /\ state_history = <<>>
    /\ controller_call = [op |-> "init", command |-> None, result |-> None]
    /\ history_dropped = 0

(***************************************************************************)
(* The command path: the clock, the QR processor's and the mission         *)
(* controller's methods, and the main loop's QR step (main.py).            *)
(***************************************************************************)
Tick ==
    /\ now < MaxCommandTime
    /\ now' = now + 1
    /\ UNCHANGED <<managerVars, qrVars, controllerVars, lockVars, trackerVars, nfzVars, servoVars, pidVars, kamikazeVars,
                   escapeVars, cameraVars>>

\* QRProcessor.process_qr_data called on its own
ProcessQrData ==
    \E text \in QrTexts :
        LET r == process_qr_data(QrState, text, now)
        IN /\ Len(r.qr.command_history) <= MaxAccepted
           /\ SetQr(r.qr)
           /\ qr_call' = [op |-> "process_qr_data", text |-> text,
                          outcome |-> r.outcome]
           /\ guard_result' = IF r.outcome = "command" THEN None ELSE guard_result
           /\ UNCHANGED <<managerVars, now, controllerVars, lockVars, trackerVars, nfzVars, servoVars, pidVars, kamikazeVars,
                          escapeVars, cameraVars>>

ClearHistory ==
    /\ SetQr(clear_history(QrState))
    /\ qr_call' = [op |-> "clear_history", text |-> None, outcome |-> "None"]
    /\ guard_result' = None
    /\ UNCHANGED <<managerVars, now, controllerVars, lockVars, trackerVars, nfzVars, servoVars, pidVars, kamikazeVars,
                   escapeVars, cameraVars>>

\* MissionController.update_state called by the controller's owner
UpdateStateTo(states) ==
    \E new_state \in states :
        LET K == update_state(ControllerState, new_state, now)
        IN /\ HistoryExplored(K)
           /\ SetController(K)
           /\ controller_call' = [op |-> "update_state", command |-> None,
                                  result |-> None]
           /\ UNCHANGED <<managerVars, now, qrVars, lockVars, trackerVars, nfzVars, servoVars, pidVars, kamikazeVars,
                          escapeVars, cameraVars>>

\* MissionController.process_command called with a command_info
ProcessCommand ==
    \E c \in QRCommand, p \in ParamInputs :
        LET r == process_command(ControllerState,
                                 [type |-> c, timestamp |-> now, parameters |-> p],
                                 now)
        IN /\ HistoryExplored(r.ctl)
           /\ SetController(r.ctl)
           /\ controller_call' = [op |-> "process_command", command |-> c,
                                  result |-> IF r.result THEN "True" ELSE "False"]
           /\ UNCHANGED <<managerVars, now, qrVars, lockVars, trackerVars, nfzVars, servoVars, pidVars, kamikazeVars,
                          escapeVars, cameraVars>>

Reset ==
    /\ SetController(reset(ControllerState, now))
    /\ controller_call' = [op |-> "reset", command |-> None, result |-> None]
    /\ UNCHANGED <<managerVars, now, qrVars, lockVars, trackerVars, nfzVars, servoVars, pidVars, kamikazeVars,
                   escapeVars, cameraVars>>

UpdateState == UpdateStateTo(MissionState)

\* the QR texts and the owner's state updates explored in the main loop
FrameTexts ==
    {create_qr_command("KAMIKAZE", {<<"target_id", "UAV_001">>}),
     create_qr_command("LOCK", {<<"target_id", "UAV_001">>}),
     create_qr_command("ESCAPE", {<<"direction", "NORTH">>}),
     "KAMIKAZE", "42"}

FrameStates == {"TRACKING"}

\* main.py, one QR detection of a frame: process_qr_data, and process_command
\* when it returned a command_info
MainQrCommand ==
    \E text \in FrameTexts :
        LET q == process_qr_data(QrState, text, now)
            r == process_command(ControllerState, q.info, now)
        IN /\ Len(q.qr.command_history) <= MaxAccepted
           /\ SetQr(q.qr)
           /\ qr_call' = [op |-> "main", text |-> text, outcome |-> q.outcome]
           /\ guard_result' = IF q.outcome # "command" THEN guard_result
                              ELSE IF r.result THEN "True" ELSE "False"
           /\ IF q.outcome = "command"
              THEN /\ Len(r.ctl.state_history) <= MaxTransitions
                   /\ SetController(r.ctl)
                   /\ controller_call' = [op |-> "process_command",
                                          command |-> q.info.type,
                                          result |-> IF r.result THEN "True" ELSE "False"]
              ELSE UNCHANGED controllerVars
           /\ UNCHANGED <<managerVars, now, lockVars, trackerVars, nfzVars, servoVars, pidVars, kamikazeVars,
                          escapeVars, cameraVars>>

MainUpdateState == UpdateStateTo(FrameStates)

QrNext == Tick \/ ProcessQrData \/ ClearHistory

ControllerNext == UpdateState \/ ProcessCommand \/ Reset

CommandNext == Tick \/ MainQrCommand \/ MainUpdateState

(***************************************************************************)
(* vision/targeting/target_lock.py                                         *)
(* The evaluator's drawing, and the fields that are only reported          *)
(* (window_start_time, last_locked_target, server_time, the per-UAV frame  *)
(* counters and timestamps), are not part of the model.                    *)
(***************************************************************************)
FrameWidth == 1280

FrameHeight == 720

\* required_lock_time = 5.0 seconds, in half-second ticks
RequiredLockTime == 10

\* int(fraction * size) for a fraction given in percent
PercentOf(percent, size) == (percent * size) \div 100

\* _setup_competition_zones
target_hit_area ==
    [x1 |-> PercentOf(25, FrameWidth), y1 |-> PercentOf(10, FrameHeight),
     x2 |-> FrameWidth - PercentOf(25, FrameWidth),
     y2 |-> FrameHeight - PercentOf(10, FrameHeight)]

lock_zone ==
    [x1 |-> target_hit_area.x1 + PercentOf(5, FrameWidth),
     y1 |-> target_hit_area.y1 + PercentOf(5, FrameHeight),
     x2 |-> target_hit_area.x2 - PercentOf(5, FrameWidth),
     y2 |-> target_hit_area.y2 - PercentOf(5, FrameHeight)]

is_point_in_lock_zone(point) ==
    /\ lock_zone.x1 < point[1] /\ point[1] < lock_zone.x2
    /\ lock_zone.y1 < point[2] /\ point[2] < lock_zone.y2

LockState ==
    [lock_hysteresis |-> lock_hysteresis, lock_start_time |-> lock_start_time,
     current_target_id |-> current_target_id, is_locked |-> is_locked,
     lock_duration |-> lock_duration,
     lock_duration_elapsed |-> lock_duration_elapsed,
     uav_counter |-> uav_counter, tracked_uavs |-> tracked_uavs]

reset_lock(L) ==
    [L EXCEPT !.current_target_id = NoTrack, !.lock_start_time = NoTime,
              !.is_locked = FALSE, !.lock_duration = 0,
              !.lock_duration_elapsed = 0]

Max(a, b) == IF a >= b THEN a ELSE b

Min(a, b) == IF a <= b THEN a ELSE b

\* a reset one step before the hysteresis floor
ShouldResetEarly(h) == h <= -2

\* the hysteresis value at which the lock is reset
ShouldReset(h) == h <= -3

\* a lock declared one tick before the required time
LockReachedEarly(duration) == duration >= RequiredLockTime - 1

\* self.is_locked = self.lock_duration >= self.required_lock_time
LockReached(duration) == duration >= RequiredLockTime

\* a decrement without the floor
HysteresisDownUnfloored(h) == h - 1

\* max(self.lock_hysteresis - 1, -3)
HysteresisDown(h) == Max(h - 1, -3)

\* the miss branch: an empty track set, or a centroid outside the lock zone
lock_miss(L) ==
    LET L1 == [L EXCEPT !.lock_hysteresis = HysteresisDown(L.lock_hysteresis)]
    IN IF ShouldReset(L1.lock_hysteresis) THEN reset_lock(L1) ELSE L1

\* "if not self.lock_start_time": None and a reading of 0 are falsy.
\* The two clock reads of the hit branch (lines 215 and 218) are one reading.
NoStartTime(L) == L.lock_start_time = NoTime \/ L.lock_start_time = 0

\* the hit branch: the centroid is inside the lock zone
lock_hit(L, obj_id, t) ==
    LET L1 == [L EXCEPT !.lock_hysteresis = Min(L.lock_hysteresis + 1, 5)]
    IN IF L1.lock_hysteresis >= 2
       THEN LET L2 == IF NoStartTime(L1)
                      THEN [L1 EXCEPT !.lock_start_time = t,
                                      !.current_target_id = obj_id]
                      ELSE L1
                duration == t - L2.lock_start_time
            IN [L2 EXCEPT !.lock_duration = duration,
                          !.is_locked = LockReached(duration),
                          !.lock_duration_elapsed = duration]
       ELSE L1

\* the decimal digits of a natural number
RECURSIVE Digits(_)
Digits(n) == IF n < 10 THEN <<n>> ELSE Append(Digits(n \div 10), n % 10)

\* the ":03d" format: decimal digits, padded with zeros to at least three
ZeroPad3(digits) ==
    IF Len(digits) >= 3 THEN digits
    ELSE [i \in 1..(3 - Len(digits)) |-> 0] \o digits

\* f"UAV_{self.uav_counter:03d}", as the digits that follow "UAV_"
uav_label(counter) == ZeroPad3(Digits(counter))

\* the value 'uav_id' has when no label applies (None)
NoLabel == <<>>

\* a counter that is not advanced
SameCounter(counter) == counter

\* self.uav_counter += 1
NextCounter(counter) == counter + 1

\* update(tracked_objects, frame); tracked_objects is the dict's items in order
lock_update(L, tracked_objects, t) ==
    IF Len(tracked_objects) = 0
    THEN lock_miss(L)
    ELSE LET obj == tracked_objects[1]
             L1 == IF obj.id \notin DictKeys(L.tracked_uavs)
                   THEN [L EXCEPT !.uav_counter = NextCounter(@),
                                  !.tracked_uavs =
                                      @ \cup {<<obj.id, uav_label(NextCounter(L.uav_counter))>>}]
                   ELSE L
         IN IF is_point_in_lock_zone(obj.centroid)
            THEN lock_hit(L1, obj.id, t)
            ELSE lock_miss(L1)

\* _get_lock_status; "if self.current_target_id and ...": None and id 0 are falsy
get_lock_status(L) ==
    [is_locked |-> L.is_locked,
     target_id |-> L.current_target_id,
     uav_id |-> IF /\ L.current_target_id # NoTrack /\ L.current_target_id # 0
                   /\ L.current_target_id \in DictKeys(L.tracked_uavs)
                THEN DictGet(L.tracked_uavs, L.current_target_id)
                ELSE NoLabel,
     lock_duration |-> L.lock_duration_elapsed,
     total_tracked_uavs |-> Cardinality(L.tracked_uavs)]

SetLock(L) ==
    /\ lock_hysteresis' = L.lock_hysteresis
    /\ lock_start_time' = L.lock_start_time
    /\ current_target_id' = L.current_target_id
    /\ is_locked' = L.is_locked
    /\ lock_duration' = L.lock_duration
    /\ lock_duration_elapsed' = L.lock_duration_elapsed
    /\ uav_counter' = L.uav_counter
    /\ tracked_uavs' = L.tracked_uavs

LockInit ==
    /\ lock_hysteresis = 0
    /\ lock_start_time = NoTime
    /\ current_target_id = NoTrack
    /\ is_locked = FALSE
    /\ lock_duration = 0
    /\ lock_duration_elapsed = 0
    /\ uav_counter = 0
    /\ tracked_uavs = {}
    /\ evaluated = <<>>
    /\ lock_call = [op |-> "init", tracks |-> 0, obj_id |-> NoTrack,
                    in_lock_zone |-> FALSE]

\* track ids and centroids of the evaluated object: the frame's centre, a point
\* just inside the lock zone, a point on its edge, and a point outside
LockTrackIds == {0, 1}

LockCentroids ==
    {<<640, 360>>, <<lock_zone.x1 + 1, lock_zone.y1 + 1>>,
     <<lock_zone.x1, 360>>, <<100, 100>>}

LockInputs ==
    {<<>>} \cup {<<[id |-> i, centroid |-> c]>> : i \in LockTrackIds, c \in LockCentroids}

LockTick ==
    /\ now < MaxLockTime
    /\ now' = now + 1
    /\ UNCHANGED <<managerVars, qrVars, controllerVars, lockVars, trackerVars, nfzVars, servoVars, pidVars, kamikazeVars,
                   escapeVars, cameraVars>>

LockUpdate ==
    \E tracked_objects \in LockInputs :
        /\ SetLock(lock_update(LockState, tracked_objects, now))
        /\ lock_call' =
             [op |-> "update", tracks |-> Len(tracked_objects),
              obj_id |-> IF Len(tracked_objects) = 0 THEN NoTrack
                         ELSE tracked_objects[1].id,
              in_lock_zone |-> /\ Len(tracked_objects) > 0
                               /\ is_point_in_lock_zone(tracked_objects[1].centroid)]
        /\ evaluated' =
             IF \/ Len(tracked_objects) = 0
                \/ tracked_objects[1].id \in SeqRange(evaluated)
             THEN evaluated
             ELSE Append(evaluated, tracked_objects[1].id)
        /\ UNCHANGED <<managerVars, now, qrVars, controllerVars, trackerVars, nfzVars, servoVars, pidVars, kamikazeVars,
                       escapeVars, cameraVars>>

\* reset_lock called by the evaluator's owner (TrackingManager.reset)
ResetLock ==
    /\ SetLock(reset_lock(LockState))
    /\ lock_call' = [op |-> "reset_lock", tracks |-> 0, obj_id |-> NoTrack,
                     in_lock_zone |-> FALSE]
    /\ UNCHANGED <<evaluated, managerVars, now, qrVars, controllerVars, trackerVars,
                   nfzVars, servoVars, pidVars, kamikazeVars,
                   escapeVars, cameraVars>>

LockNext == LockTick \/ LockUpdate \/ ResetLock

(***************************************************************************)
(* detection/tracking/kalman_tracker.py                                    *)
(* Positions are whole pixels, velocities pixels per second, covariances   *)
(* multiples of 1e-6.  The filter's x and y axes have the same transition, *)
(* measurement and noise entries and no cross terms, so one covariance     *)
(* triple (position, position-velocity, velocity) serves both; the z axis  *)
(* is never measured nor read and is left out.                             *)
(***************************************************************************)
MaxDistance == 100

\* dt = 1/30.0
FramesPerSecond == 30

\* processNoiseCov = 1e-3 * I
ProcessNoise == 1000

\* measurementNoiseCov = 1e-4 * I
MeasurementNoise == 100

\* cv2.KalmanFilter(6, 2): statePost and errorCovPost start at zero, and
\* _create_kalman_filter sets neither
create_kalman_filter ==
    [x |-> 0, y |-> 0, vx |-> 0, vy |-> 0, pp |-> 0, pv |-> 0, vv |-> 0]

\* kf.predict(): statePre = A statePost, errorCovPre = A P A' + Q, both copied
\* to the posterior; the returned prediction is <<x, y>> of the result
kf_predict(kf) ==
    [x |-> kf.x + kf.vx \div FramesPerSecond,
     y |-> kf.y + kf.vy \div FramesPerSecond,
     vx |-> kf.vx,
     vy |-> kf.vy,
     pp |-> kf.pp + (2 * kf.pv) \div FramesPerSecond
                  + kf.vv \div (FramesPerSecond * FramesPerSecond) + ProcessNoise,
     pv |-> kf.pv + kf.vv \div FramesPerSecond,
     vv |-> kf.vv + ProcessNoise]

\* kf.correct(measurement): gain K = P H' (H P H' + R)^-1
kf_correct(kf, z) ==
    LET s == kf.pp + MeasurementNoise
    IN [x |-> kf.x + (kf.pp * (z[1] - kf.x)) \div s,
        y |-> kf.y + (kf.pp * (z[2] - kf.y)) \div s,
        vx |-> kf.vx + (kf.pv * (z[1] - kf.x)) \div s,
        vy |-> kf.vy + (kf.pv * (z[2] - kf.y)) \div s,
        pp |-> (kf.pp * MeasurementNoise) \div s,
        pv |-> (kf.pv * MeasurementNoise) \div s,
        vv |-> kf.vv - (kf.pv * kf.pv) \div s]

TrackerState ==
    [next_object_id |-> next_object_id, objects |-> objects,
     disappeared |-> disappeared]

register(T, centroid) ==
    [next_object_id |-> T.next_object_id + 1,
     objects |-> Append(T.objects, [id |-> T.next_object_id, centroid |-> centroid,
                                    kf |-> create_kalman_filter]),
     disappeared |-> (T.next_object_id :> 0) @@ T.disappeared]

deregister(T, object_id) ==
    [T EXCEPT !.objects = SelectSeq(@, LAMBDA o : o.id # object_id),
              !.disappeared = [i \in DOMAIN @ \ {object_id} |-> @[i]]]

\* the position of object_id in the objects dict
ObjectIndex(T, object_id) ==
    CHOOSE k \in 1..Len(T.objects) : T.objects[k].id = object_id

\* centroid of a detection's bbox
detection_centroid(det) ==
    <<(det.bbox[1] + det.bbox[3]) \div 2, (det.bbox[2] + det.bbox[4]) \div 2>>

\* the synthetic 100x100 box of a predicted track
EstimatedBbox(c) == <<c[1] - 50, c[2] - 50, c[1] + 50, c[2] + 50>>

\* confidence 0.5 of a predicted track, in tenths
PredictionConfidence == 5

\* lines 89-94: every track's counter incremented, expired tracks deregistered
RECURSIVE MarkDisappeared(_, _)
MarkDisappeared(T, ids) ==
    IF ids = <<>> THEN T
    ELSE LET object_id == Head(ids)
             T1 == [T EXCEPT !.disappeared[object_id] = @ + 1]
             T2 == IF T1.disappeared[object_id] > MaxDisappeared
                   THEN deregister(T1, object_id) ELSE T1
         IN MarkDisappeared(T2, Tail(ids))

ObjectIds(T) == [k \in 1..Len(T.objects) |-> T.objects[k].id]

\* object_centroids = [obj[0] for obj in self.objects.values()], with the keys
StoredCentroids(T) ==
    [k \in 1..Len(T.objects) |->
        [id |-> T.objects[k].id, centroid |-> T.objects[k].centroid]]

\* lines 96-106: the filters of the remaining tracks are stepped and their
\* predictions returned; the stored centroids are left as they were
update_no_detections(T) ==
    LET T1 == MarkDisappeared(T, ObjectIds(T))
        stepped == [k \in 1..Len(T1.objects) |->
                      [T1.objects[k] EXCEPT !.kf = kf_predict(@)]]
    IN [tracker |-> [T1 EXCEPT !.objects = stepped],
        tracked_objects |->
            [k \in 1..Len(stepped) |->
                [id |-> stepped[k].id,
                 centroid |-> <<stepped[k].kf.x, stepped[k].kf.y>>,
                 bbox |-> EstimatedBbox(<<stepped[k].kf.x, stepped[k].kf.y>>),
                 confidence |-> PredictionConfidence]]]

\* lines 109-116: every detection registered; the returned key is the
\* detection's index in the list
RECURSIVE update_no_objects(_, _, _, _)
update_no_objects(T, detection_list, i, out) ==
    IF i > Len(detection_list)
    THEN [tracker |-> T, tracked_objects |-> out]
    ELSE LET det == detection_list[i]
         IN update_no_objects(register(T, detection_centroid(det)),
                              detection_list, i + 1,
                              Append(out, [id |-> i - 1,
                                           centroid |-> detection_centroid(det),
                                           bbox |-> det.bbox,
                                           confidence |-> det.confidence]))

\* squared Euclidean distance; D is kept squared and compared with the
\* squared threshold
Dist2(a, b) ==
    (a[1] - b[1]) * (a[1] - b[1]) + (a[2] - b[2]) * (a[2] - b[2])

\* D = distance.cdist(object_centroids, detection_centroids)
cdist(T, detection_list) ==
    [row \in 1..Len(T.objects) |->
        [col \in 1..Len(detection_list) |->
            Dist2(T.objects[row].centroid, detection_centroid(detection_list[col]))]]

\* D.min(axis=1)[row]
RowMin(D, row) ==
    CHOOSE m \in {D[row][c] : c \in DOMAIN D[row]} :
        \A c \in DOMAIN D[row] : m <= D[row][c]

\* D.argmin(axis=1)[row]: the first column holding the row's minimum
ArgMin(D, row) ==
    CHOOSE c \in DOMAIN D[row] :
        /\ D[row][c] = RowMin(D, row)
        /\ \A c2 \in DOMAIN D[row] : c2 < c => D[row][c2] > RowMin(D, row)

\* D.min(axis=1).argsort(); numpy sorts arrays this short by insertion, which
\* keeps rows of equal minimum in index order
ArgSortRows(D) ==
    [k \in 1..Len(D) |->
        CHOOSE r \in 1..Len(D) :
            Cardinality({r2 \in 1..Len(D) :
                           \/ RowMin(D, r2) < RowMin(D, r)
                           \/ RowMin(D, r2) = RowMin(D, r) /\ r2 < r}) = k - 1]

\* a matching loop that accepts a pair at any distance
NeverTooFar(d) == FALSE

\* D[row, col] > self.max_distance, on squared distances
TooFar(d) == d > MaxDistance * MaxDistance

\* lines 141-171: greedy assignment of rows, in order, to their nearest column
RECURSIVE match_rows(_, _, _, _, _)
match_rows(S, D, rows, object_ids, detection_list) ==
    IF rows = <<>> THEN S
    ELSE LET row == Head(rows)
             col == ArgMin(D, row)
         IN IF \/ row \in S.used_rows \/ col \in S.used_cols
               \/ TooFar(D[row][col])
            THEN match_rows(S, D, Tail(rows), object_ids, detection_list)
            ELSE LET object_id == object_ids[row]
                     det == detection_list[col]
                     k == ObjectIndex(S.tracker, object_id)
                     predicted == kf_predict(S.tracker.objects[k].kf)
                     predicted_centroid == <<predicted.x, predicted.y>>
                     corrected == kf_correct(predicted, detection_centroid(det))
                     T1 == [S.tracker EXCEPT
                              !.objects[k] = [id |-> object_id,
                                              centroid |-> predicted_centroid,
                                              kf |-> corrected],
                              !.disappeared[object_id] = 0]
                 IN match_rows(
                      [tracker |-> T1,
                       tracked_objects |->
                           Append(S.tracked_objects,
                                  [id |-> object_id,
                                   centroid |-> predicted_centroid,
                                   bbox |-> det.bbox,
                                   confidence |-> det.confidence]),
                       used_rows |-> S.used_rows \cup {row},
                       used_cols |-> S.used_cols \cup {col}],
                      D, Tail(rows), object_ids, detection_list)

\* lines 173-194: tracks left without a detection
RECURSIVE unmatched_rows(_, _, _)
unmatched_rows(S, object_ids, row) ==
    IF row > Len(object_ids) THEN S
    ELSE IF row \in S.used_rows THEN unmatched_rows(S, object_ids, row + 1)
    ELSE LET object_id == object_ids[row]
             T1 == [S.tracker EXCEPT !.disappeared[object_id] = @ + 1]
         IN IF T1.disappeared[object_id] > MaxDisappeared
            THEN unmatched_rows([S EXCEPT !.tracker = deregister(T1, object_id)],
                                object_ids, row + 1)
            ELSE LET k == ObjectIndex(T1, object_id)
                     predicted == kf_predict(T1.objects[k].kf)
                     predicted_centroid == <<predicted.x, predicted.y>>
                     T2 == [T1 EXCEPT !.objects[k] =
                              [id |-> object_id, centroid |-> predicted_centroid,
                               kf |-> predicted]]
                 IN unmatched_rows(
                      [S EXCEPT !.tracker = T2,
                                !.tracked_objects =
                                   Append(@, [id |-> object_id,
                                              centroid |-> predicted_centroid,
                                              bbox |-> EstimatedBbox(predicted_centroid),
                                              confidence |-> PredictionConfidence])],
                      object_ids, row + 1)

\* lines 196-206: detections left without a track are registered
RECURSIVE unmatched_cols(_, _, _)
unmatched_cols(S, detection_list, col) ==
    IF col > Len(detection_list) THEN S
    ELSE IF col \in S.used_cols THEN unmatched_cols(S, detection_list, col + 1)
    ELSE LET det == detection_list[col]
             T1 == register(S.tracker, detection_centroid(det))
             new_id == T1.next_object_id - 1
         IN unmatched_cols(
              [S EXCEPT !.tracker = T1,
                        !.tracked_objects =
                           Append(@, [id |-> new_id,
                                      centroid |-> detection_centroid(det),
                                      bbox |-> det.bbox,
                                      confidence |-> det.confidence])],
              detection_list, col + 1)

\* update(detections); the returned dict is its entries in insertion order
tracker_update(T, detections) ==
    IF Len(detections) = 0 THEN update_no_detections(T)
    ELSE IF Len(T.objects) = 0 THEN update_no_objects(T, detections, 1, <<>>)
    ELSE LET D == cdist(T, detections)
             object_ids == ObjectIds(T)
             S0 == [tracker |-> T, tracked_objects |-> <<>>,
                    used_rows |-> {}, used_cols |-> {}]
             S1 == match_rows(S0, D, ArgSortRows(D), object_ids, detections)
             S2 == unmatched_rows(S1, object_ids, 1)
             S3 == unmatched_cols(S2, detections, 1)
         IN [tracker |-> S3.tracker, tracked_objects |-> S3.tracked_objects]

\* the ids whose track the matching loop of update pairs with a detection
matched_ids(T, detections) ==
    IF Len(detections) = 0 \/ Len(T.objects) = 0 THEN {}
    ELSE LET D == cdist(T, detections)
             object_ids == ObjectIds(T)
             S0 == [tracker |-> T, tracked_objects |-> <<>>,
                    used_rows |-> {}, used_cols |-> {}]
             S1 == match_rows(S0, D, ArgSortRows(D), object_ids, detections)
         IN {object_ids[row] : row \in S1.used_rows}

SetTracker(T) ==
    /\ next_object_id' = T.next_object_id
    /\ objects' = T.objects
    /\ disappeared' = T.disappeared

TrackerInit ==
    /\ next_object_id = 0
    /\ objects = <<>>
    /\ disappeared = <<>>
    /\ frames = <<>>
    /\ unmatched_calls = <<>>
    /\ tracker_call = [op |-> "init", tracked_objects |-> <<>>, before |-> <<>>]

\* a detection of confidence 0.9 whose 40x40 bbox is centred on c
DetectionAt(c) ==
    [bbox |-> <<c[1] - 20, c[2] - 20, c[1] + 20, c[2] + 20>>, confidence |-> 9]

\* the frame's centre, a point 45 pixels from it, and a point near the origin
DetectionCentroids == {<<640, 360>>, <<680, 380>>, <<60, 40>>}

DetectionInputs ==
    {<<>>} \cup {<<DetectionAt(c)>> : c \in DetectionCentroids}
           \cup {<<DetectionAt(<<640, 360>>), DetectionAt(<<60, 40>>)>>}

TrackerUpdate ==
    \E detections \in DetectionInputs :
        LET r == tracker_update(TrackerState, detections)
        IN /\ Len(frames) < MaxFrames
           /\ SetTracker(r.tracker)
           /\ frames' = Append(frames, detections)
           /\ unmatched_calls' =
                [i \in 0..(r.tracker.next_object_id - 1) |->
                    IF i >= next_object_id \/ i \in matched_ids(TrackerState, detections)
                    THEN 0 ELSE unmatched_calls[i] + 1]
           /\ tracker_call' = [op |-> "update", tracked_objects |-> r.tracked_objects,
                                before |-> StoredCentroids(TrackerState)]
           /\ UNCHANGED <<managerVars, now, qrVars, controllerVars, lockVars, nfzVars, servoVars, pidVars, kamikazeVars,
                          escapeVars, cameraVars>>

TrackerNext == TrackerUpdate

(***************************************************************************)
(* vision/safety/no_fly_zone_controller.py                                 *)
(* Time is in half-second ticks and penalty points in half points, so that *)
(* time_delta * penalty_points_per_second is ticks * PenaltyPointsPerSecond.*)
(* A zone's zone_type and activation_time are written and never read by    *)
(* update; they are not part of the model.                                 *)
(***************************************************************************)
\* penalty_points_per_second = 5.0
PenaltyPointsPerSecond == 5

\* NoFlyZone(zone_id, zone_type, center, radius, activation_time)
NoFlyZone(center, radius) ==
    [center |-> center, radius |-> radius, is_active |-> FALSE,
     total_violation_time |-> 0, last_violation_check |-> NoTime]

NfzState ==
    [zones |-> zones, total_penalty_points |-> total_penalty_points,
     current_violations |-> current_violations]

add_zone(N, zone_id, center, radius) ==
    [N EXCEPT !.zones = (zone_id :> NoFlyZone(center, radius)) @@ @]

activate_zone(N, zone_id) ==
    IF zone_id \in DOMAIN N.zones
    THEN [N EXCEPT !.zones[zone_id].is_active = TRUE]
    ELSE N

deactivate_zone(N, zone_id) ==
    IF zone_id \in DOMAIN N.zones
    THEN [N EXCEPT !.zones[zone_id].is_active = FALSE]
    ELSE N

\* distance <= zone.radius, on the x and y coordinates
is_point_in_zone(point, zone) ==
    Dist2(point, zone.center) <= zone.radius * zone.radius

\* a zone that already holds a stale timestamp when the UAV is found outside
KeepViolationCheck(zone) == zone

\* line 221: zone.last_violation_check = None
ClearViolationCheck(zone) == [zone EXCEPT !.last_violation_check = NoTime]

\* the time_delta of lines 210-211 for one zone, 0 for a new violation
ZoneTimeDelta(zone, current_pos, current_time) ==
    IF /\ zone.is_active /\ is_point_in_zone(current_pos, zone)
       /\ zone.last_violation_check # NoTime
    THEN current_time - zone.last_violation_check
    ELSE 0

\* lines 197-221 for one zone
update_zone(zone, current_pos, current_time) ==
    IF ~zone.is_active THEN zone
    ELSE IF is_point_in_zone(current_pos, zone)
    THEN [zone EXCEPT
            !.total_violation_time = @ + ZoneTimeDelta(zone, current_pos, current_time),
            !.last_violation_check = current_time]
    ELSE ClearViolationCheck(zone)

RECURSIVE SumOver(_, _)
SumOver(f, S) ==
    IF S = {} THEN 0
    ELSE LET x == CHOOSE y \in S : TRUE IN f[x] + SumOver(f, S \ {x})

\* max((zone.total_violation_time for zone in self.zones.values()), default=0.0)
max_violation(Z) ==
    IF DOMAIN Z = {} THEN 0
    ELSE CHOOSE m \in {Z[z].total_violation_time : z \in DOMAIN Z} :
            \A z \in DOMAIN Z : Z[z].total_violation_time <= m

\* a flag raised only above max_violation_time
EmergencyAboveMaximum(violation) == violation > MaxViolationTime

\* max_violation >= self.max_violation_time
EmergencyLandingRequired(violation) == violation >= MaxViolationTime

\* update(current_pos) with time.time() = current_time
nfz_update(N, current_pos, current_time) ==
    LET ids == DOMAIN N.zones
        new_violations ==
            {z \in ids : N.zones[z].is_active /\ is_point_in_zone(current_pos, N.zones[z])}
        deltas == [z \in ids |-> ZoneTimeDelta(N.zones[z], current_pos, current_time)]
        Z1 == [z \in ids |-> update_zone(N.zones[z], current_pos, current_time)]
        points == N.total_penalty_points + SumOver(deltas, ids) * PenaltyPointsPerSecond
    IN [nfz |-> [zones |-> Z1, total_penalty_points |-> points,
                 current_violations |-> new_violations],
        result |-> [in_violation |-> new_violations # {},
                    violated_zones |-> new_violations,
                    total_penalty_points |-> points,
                    max_violation_time |-> max_violation(Z1),
                    emergency_landing_required |->
                        EmergencyLandingRequired(max_violation(Z1))]]

SetNfz(N) ==
    /\ zones' = N.zones
    /\ total_penalty_points' = N.total_penalty_points
    /\ current_violations' = N.current_violations

NoResult ==
    [in_violation |-> FALSE, violated_zones |-> {}, total_penalty_points |-> 0,
     max_violation_time |-> 0, emergency_landing_required |-> FALSE]

NfzInit ==
    /\ zones = <<>>
    /\ total_penalty_points = 0
    /\ current_violations = {}
    /\ nfz_call = [op |-> "init", result |-> NoResult]
    /\ nfz_previous = [time |-> NoTime, inside |-> {}]
    /\ inside_time = <<>>
    /\ active_throughout = <<>>
    /\ left_and_returned = <<>>
    /\ inactive_elapsed = <<>>

\* two zones of radius 50 whose circles touch at <<50, 0>>
ZoneCatalog ==
    [AD1 |-> [center |-> <<0, 0>>, radius |-> 50],
     SJ1 |-> [center |-> <<100, 0>>, radius |-> 50]]

ZoneIds == DOMAIN ZoneCatalog

\* 10 units inside AD1, on the radius of both zones, outside both
UavPositions == {<<40, 0>>, <<50, 0>>, <<200, 0>>}

NfzTick ==
    /\ now < MaxZoneTime
    /\ now' = now + 1
    /\ inactive_elapsed' =
         [z \in DOMAIN zones |->
             \/ inactive_elapsed[z]
             \/ ~zones[z].is_active /\ zones[z].last_violation_check # NoTime]
    /\ UNCHANGED <<managerVars, qrVars, controllerVars, lockVars, trackerVars,
                   servoVars, pidVars, kamikazeVars,
                   escapeVars, cameraVars, zones, total_penalty_points,
                   current_violations, nfz_call, nfz_previous, inside_time,
                   active_throughout, left_and_returned>>

\* add_zone, for a zone_id not added before
AddZone ==
    \E zone_id \in ZoneIds \ DOMAIN zones :
        /\ SetNfz(add_zone(NfzState, zone_id, ZoneCatalog[zone_id].center,
                           ZoneCatalog[zone_id].radius))
        /\ inside_time' = (zone_id :> 0) @@ inside_time
        /\ active_throughout' = (zone_id :> TRUE) @@ active_throughout
        /\ left_and_returned' = (zone_id :> FALSE) @@ left_and_returned
        /\ inactive_elapsed' = (zone_id :> FALSE) @@ inactive_elapsed
        /\ UNCHANGED <<managerVars, now, qrVars, controllerVars, lockVars,
                       trackerVars, servoVars, pidVars, kamikazeVars,
                       escapeVars, cameraVars, nfz_call,
                       nfz_previous>>

ActivateZone ==
    \E zone_id \in ZoneIds :
        /\ SetNfz(activate_zone(NfzState, zone_id))
        /\ UNCHANGED <<managerVars, now, qrVars, controllerVars, lockVars,
                       trackerVars, servoVars, pidVars, kamikazeVars,
                       escapeVars, cameraVars, nfz_call,
                       nfz_previous, inside_time, active_throughout,
                       left_and_returned, inactive_elapsed>>

DeactivateZone ==
    \E zone_id \in ZoneIds :
        /\ SetNfz(deactivate_zone(NfzState, zone_id))
        /\ UNCHANGED <<managerVars, now, qrVars, controllerVars, lockVars,
                       trackerVars, servoVars, pidVars, kamikazeVars,
                       escapeVars, cameraVars, nfz_call,
                       nfz_previous, inside_time, active_throughout,
                       left_and_returned, inactive_elapsed>>

NfzUpdate ==
    \E current_pos \in UavPositions :
        LET r == nfz_update(NfzState, current_pos, now)
            found == r.result.violated_zones
        IN /\ SetNfz(r.nfz)
           /\ nfz_call' = [op |-> "update", result |-> r.result]
           /\ nfz_previous' = [time |-> now, inside |-> found]
           /\ inside_time' =
                [z \in DOMAIN zones |->
                    inside_time[z] + IF z \in found /\ z \in nfz_previous.inside
                                     THEN now - nfz_previous.time ELSE 0]
           /\ active_throughout' =
                [z \in DOMAIN zones |-> active_throughout[z] /\ zones[z].is_active]
           /\ left_and_returned' =
                [z \in DOMAIN zones |->
                    \/ left_and_returned[z]
                    \/ /\ z \in found /\ z \notin nfz_previous.inside
                       /\ zones[z].total_violation_time > 0]
           /\ inactive_elapsed' =
                [z \in DOMAIN zones |->
                    inactive_elapsed[z] /\ r.nfz.zones[z].last_violation_check # NoTime
                    /\ ~zones[z].is_active]
           /\ UNCHANGED <<managerVars, now, qrVars, controllerVars, lockVars,
                          trackerVars, servoVars, pidVars, kamikazeVars,
                          escapeVars, cameraVars>>

NfzNext == NfzTick \/ AddZone \/ ActivateZone \/ DeactivateZone \/ NfzUpdate

(***************************************************************************)
(* hardware/servo_controller.py                                            *)
(* The calling thread runs start, stop and set_angles; every start() that  *)
(* finds is_running false creates one thread running _update_servos.  The  *)
(* threads interleave at the reads and writes of the shared fields.  In    *)
(* hardware mode the pigpio handle is connected after construction.        *)
(***************************************************************************)
PanPin == 12

TiltPin == 13

\* pan_min = tilt_min = 500, pan_max = tilt_max = 2500
PulseMin == 500

PulseMax == 2500

\* pan_angle_min/max = -90.0/90.0, tilt_angle_min/max = -45.0/45.0, in tenths
PanAngleMin == -900

PanAngleMax == 900

TiltAngleMin == -450

TiltAngleMax == 450

\* max(angle_min, min(angle_max, angle))
ClampAngle(angle, angle_min, angle_max) == Max(angle_min, Min(angle_max, angle))

\* _angle_to_pulse: int(pulse_min + normalized * (pulse_max - pulse_min))
angle_to_pulse(angle, pulse_min, pulse_max, angle_min, angle_max) ==
    pulse_min + ((ClampAngle(angle, angle_min, angle_max) - angle_min)
                   * (pulse_max - pulse_min)) \div (angle_max - angle_min)

PanPulse(angle) == angle_to_pulse(angle, PulseMin, PulseMax, PanAngleMin, PanAngleMax)

TiltPulse(angle) == angle_to_pulse(angle, PulseMin, PulseMax, TiltAngleMin, TiltAngleMax)

\* diff * smoothing with smoothing = 0.3, rounded toward zero
Smoothed(diff) == IF diff >= 0 THEN (3 * diff) \div 10 ELSE -((3 * (-diff)) \div 10)

\* a thread at the top of _update_servos
NewLoop ==
    [pc |-> "while", pan_diff |-> 0, tilt_diff |-> 0, pan_writer |-> 0,
     tilt_writer |-> 0]

\* the state before ServoController(...) is constructed; the construction is
\* the action ServoConstruct, whose outcome depends on the hardware found
ServoInit ==
    /\ simulation_mode = TRUE
    /\ current_pan = 0
    /\ current_tilt = 0
    /\ target_pan = 0
    /\ target_tilt = 0
    /\ is_running = FALSE
    /\ update_thread = None
    /\ loops = <<>>
    /\ servo_main = [pc |-> "new", tilt |-> 0, last_op |-> "init"]
    /\ pulsewidth = [pan |-> PanPulse(0), tilt |-> TiltPulse(0)]
    /\ pi_connected = FALSE
    /\ stop_calls = <<>>
    /\ set_angles_calls = 0
    /\ target_writers = [pan |-> 0, tilt |-> 0]
    /\ servo_ticks = 0
    /\ last_tick = [pan_writer |-> 0, tilt_writer |-> 0]

\* the threads that start() can create, in order of creation
LoopThreads == <<"thread1", "thread2">>

\* (pan, tilt) arguments of set_angles: inside the ranges, and beyond them
AngleInputs == {<<300, -200>>, <<1200, 600>>}

otherVars ==
    <<managerVars, now, qrVars, controllerVars, lockVars, trackerVars, nfzVars, pidVars,
      kamikazeVars, escapeVars, cameraVars>>

\* start()
\* __init__: simulation mode is the caller's choice, and is forced when pigpio
\* is missing, its daemon is not connected, or the set-up raises
ServoConstruct ==
    /\ servo_main.pc = "new"
    /\ \E mode \in BOOLEAN :
          /\ simulation_mode' = mode
          /\ pi_connected' = ~mode
    /\ servo_main' = [servo_main EXCEPT !.pc = "idle"]
    /\ UNCHANGED <<otherVars, current_pan, current_tilt, target_pan, target_tilt,
                   is_running, update_thread, loops, pulsewidth, stop_calls,
                   set_angles_calls, target_writers, servo_ticks, last_tick>>

ServoStart ==
    /\ servo_main.pc = "idle"
    /\ servo_main' = [servo_main EXCEPT !.last_op = "start"]
    /\ IF ~is_running
       THEN /\ Cardinality(DOMAIN loops) < Len(LoopThreads)
            /\ is_running' = TRUE
            /\ loops' = (LoopThreads[Cardinality(DOMAIN loops) + 1] :> NewLoop) @@ loops
            /\ update_thread' = LoopThreads[Cardinality(DOMAIN loops) + 1]
       ELSE UNCHANGED <<is_running, loops, update_thread>>
    /\ UNCHANGED <<otherVars, simulation_mode, current_pan, current_tilt, target_pan,
                   target_tilt, pulsewidth, pi_connected, stop_calls,
                   set_angles_calls, target_writers, servo_ticks, last_tick>>

\* stop(), line 189: self.is_running = False
ServoStopBegin ==
    /\ servo_main.pc = "idle"
    /\ is_running' = FALSE
    /\ stop_calls' = <<>>
    /\ servo_main' = [servo_main EXCEPT
                        !.pc = IF update_thread # None THEN "stop_join"
                               ELSE "stop_recenter"]
    /\ UNCHANGED <<otherVars, simulation_mode, current_pan, current_tilt, target_pan,
                   target_tilt, update_thread, loops, pulsewidth, pi_connected,
                   set_angles_calls, target_writers, servo_ticks, last_tick>>

\* stop(), lines 191-192: join(timeout=1.0) returns when the thread has ended,
\* or when the timeout has passed and it has not
ServoStopJoin ==
    /\ servo_main.pc = "stop_join"
    /\ servo_main' = [servo_main EXCEPT !.pc = "stop_recenter"]
    /\ update_thread' = None
    /\ UNCHANGED <<otherVars, simulation_mode, current_pan, current_tilt, target_pan,
                   target_tilt, is_running, loops, pulsewidth, pi_connected,
                   stop_calls, set_angles_calls, target_writers, servo_ticks,
                   last_tick>>

\* stop(), lines 195-199: in hardware mode both axes are sent to 0 degrees
\* (_set_servo_pulse swallows the error of a stopped handle); in simulation
\* mode the whole block is skipped and stop() returns
ServoStopRecenter ==
    /\ servo_main.pc = "stop_recenter"
    /\ IF simulation_mode
       THEN /\ servo_main' = [servo_main EXCEPT !.pc = "idle", !.last_op = "stop"]
            /\ UNCHANGED <<pulsewidth, stop_calls>>
       ELSE /\ servo_main' = [servo_main EXCEPT !.pc = "stop_disable"]
            /\ stop_calls' = stop_calls \o <<[pin |-> PanPin, pulse |-> PanPulse(0)],
                                             [pin |-> TiltPin, pulse |-> TiltPulse(0)]>>
            /\ pulsewidth' = IF pi_connected
                             THEN [pan |-> PanPulse(0), tilt |-> TiltPulse(0)]
                             ELSE pulsewidth
    /\ UNCHANGED <<otherVars, simulation_mode, current_pan, current_tilt, target_pan,
                   target_tilt, is_running, update_thread, loops, pi_connected,
                   set_angles_calls, target_writers, servo_ticks, last_tick>>

\* stop(), lines 202-206: both channels disabled and the handle stopped; on a
\* stopped handle the first call raises and the except clause ends the block
ServoStopDisable ==
    /\ servo_main.pc = "stop_disable"
    /\ servo_main' = [servo_main EXCEPT !.pc = "idle", !.last_op = "stop"]
    /\ IF pi_connected
       THEN /\ pulsewidth' = [pan |-> 0, tilt |-> 0]
            /\ pi_connected' = FALSE
            /\ stop_calls' = stop_calls \o <<[pin |-> PanPin, pulse |-> 0],
                                             [pin |-> TiltPin, pulse |-> 0]>>
       ELSE /\ stop_calls' = Append(stop_calls, [pin |-> PanPin, pulse |-> 0])
            /\ UNCHANGED <<pulsewidth, pi_connected>>
    /\ UNCHANGED <<otherVars, simulation_mode, current_pan, current_tilt, target_pan,
                   target_tilt, is_running, update_thread, loops, set_angles_calls,
                   target_writers, servo_ticks, last_tick>>

\* set_angles(pan, tilt), line 219
ServoSetAnglesPan ==
    \E angles \in AngleInputs :
        /\ servo_main.pc = "idle"
        /\ set_angles_calls < MaxSetAngles
        /\ set_angles_calls' = set_angles_calls + 1
        /\ target_pan' = ClampAngle(angles[1], PanAngleMin, PanAngleMax)
        /\ target_writers' = [target_writers EXCEPT !.pan = set_angles_calls + 1]
        /\ servo_main' = [servo_main EXCEPT !.pc = "set_tilt", !.tilt = angles[2]]
        /\ UNCHANGED <<otherVars, simulation_mode, current_pan, current_tilt,
                       target_tilt, is_running, update_thread, loops, pulsewidth,
                       pi_connected, stop_calls, servo_ticks, last_tick>>

\* set_angles(pan, tilt), line 220
ServoSetAnglesTilt ==
    /\ servo_main.pc = "set_tilt"
    /\ target_tilt' = ClampAngle(servo_main.tilt, TiltAngleMin, TiltAngleMax)
    /\ target_writers' = [target_writers EXCEPT !.tilt = set_angles_calls]
    /\ servo_main' = [servo_main EXCEPT !.pc = "idle", !.tilt = 0,
                                        !.last_op = "set_angles"]
    /\ UNCHANGED <<otherVars, simulation_mode, current_pan, current_tilt, target_pan,
                   is_running, update_thread, loops, pulsewidth, pi_connected,
                   stop_calls, set_angles_calls, servo_ticks, last_tick>>

\* _update_servos, lines 146-151: while self.is_running, then
\* pan_diff = self.target_pan - self.current_pan (the test reads a field that
\* only the calling thread writes, the read a field it does not test, so the two
\* are taken in one step)
LoopWhile ==
    \E k \in DOMAIN loops :
        /\ loops[k].pc = "while"
        /\ is_running => servo_ticks < MaxTicks
        /\ loops' = IF is_running
                    THEN [loops EXCEPT ![k].pc = "read_tilt",
                                       ![k].pan_diff = target_pan - current_pan,
                                       ![k].pan_writer = target_writers.pan]
                    ELSE [loops EXCEPT ![k].pc = "done"]
        /\ UNCHANGED <<otherVars, simulation_mode, current_pan, current_tilt,
                       target_pan, target_tilt, is_running, update_thread,
                       servo_main, pulsewidth, pi_connected, stop_calls,
                       set_angles_calls, target_writers, servo_ticks, last_tick>>

\* line 152: tilt_diff = self.target_tilt - self.current_tilt
LoopReadTilt ==
    \E k \in DOMAIN loops :
        /\ loops[k].pc = "read_tilt"
        /\ loops' = [loops EXCEPT ![k].pc = "apply",
                                  ![k].tilt_diff = target_tilt - current_tilt,
                                  ![k].tilt_writer = target_writers.tilt]
        /\ UNCHANGED <<otherVars, simulation_mode, current_pan, current_tilt,
                       target_pan, target_tilt, is_running, update_thread,
                       servo_main, pulsewidth, pi_connected, stop_calls,
                       set_angles_calls, target_writers, servo_ticks, last_tick>>

\* lines 157-176: the current angles move, are clamped and are sent as pulses
LoopApply ==
    \E k \in DOMAIN loops :
        LET pan == ClampAngle(current_pan + Smoothed(loops[k].pan_diff),
                              PanAngleMin, PanAngleMax)
            tilt == ClampAngle(current_tilt + Smoothed(loops[k].tilt_diff),
                               TiltAngleMin, TiltAngleMax)
        IN /\ loops[k].pc = "apply"
           /\ current_pan' = pan
           /\ current_tilt' = tilt
           /\ pulsewidth' = IF ~simulation_mode /\ pi_connected
                            THEN [pan |-> PanPulse(pan), tilt |-> TiltPulse(tilt)]
                            ELSE pulsewidth
           /\ servo_ticks' = servo_ticks + 1
           /\ last_tick' = [pan_writer |-> loops[k].pan_writer,
                            tilt_writer |-> loops[k].tilt_writer]
           /\ loops' = [loops EXCEPT ![k].pc = "while", ![k].pan_diff = 0,
                                     ![k].tilt_diff = 0]
           /\ UNCHANGED <<otherVars, simulation_mode, target_pan, target_tilt,
                          is_running, update_thread, servo_main, pi_connected,
                          stop_calls, set_angles_calls, target_writers>>

ServoNext ==
    \/ ServoConstruct
    \/ ServoStart \/ ServoStopBegin \/ ServoStopJoin \/ ServoStopRecenter
    \/ ServoStopDisable \/ ServoSetAnglesPan \/ ServoSetAnglesTilt
    \/ LoopWhile \/ LoopReadTilt \/ LoopApply

(***************************************************************************)
(* vision/targeting/camera_controller.py: PIDController                    *)
(* With time in half-second ticks, kp * error is 1000 kp * error           *)
(* thousandths, ki * integral is 500 ki * (integral in pixel ticks) and    *)
(* kd * derivative is 2000 kd * (error difference) / (dt in ticks).        *)
(***************************************************************************)
\* pan_pid = PIDController(kp=0.05, ki=0.01, kd=0.02, -max_pan_rate, max_pan_rate)
\* with max_pan_rate = 30.0
PanPid ==
    [kp |-> 50, ki |-> 5, kd |-> 40, min_output |-> -30000, max_output |-> 30000]

PidState ==
    [previous_error |-> previous_error, integral |-> integral, last_time |-> last_time]

\* an output passed on without limiting
PidUnlimited(G, output) == output

\* output = max(self.min_output, min(self.max_output, output))
PidLimited(G, output) == Max(G.min_output, Min(G.max_output, output))

\* a quotient rounded toward zero
Quotient(a, b) == IF a >= 0 THEN a \div b ELSE -((-a) \div b)

\* compute(setpoint, process_variable, current_time)
pid_compute(G, P, setpoint, process_variable, current_time) ==
    IF P.last_time = NoTime
    THEN [output |-> 0,
          pid |-> [P EXCEPT !.last_time = current_time,
                            !.previous_error = setpoint - process_variable]]
    ELSE LET dt == current_time - P.last_time
             error == setpoint - process_variable
             integral1 == P.integral + error * dt
             output == G.kp * error + G.ki * integral1
                       + Quotient(G.kd * (error - P.previous_error), dt)
         IN IF dt <= 0
            THEN [output |-> 0, pid |-> P]
            ELSE [output |-> PidLimited(G, output),
                  pid |-> [previous_error |-> error, integral |-> integral1,
                           last_time |-> current_time]]

pid_reset(P) == [previous_error |-> 0, integral |-> 0, last_time |-> NoTime]

SetPid(P) ==
    /\ previous_error' = P.previous_error
    /\ integral' = P.integral
    /\ last_time' = P.last_time

PidInit ==
    /\ previous_error = 0
    /\ integral = 0
    /\ last_time = NoTime
    /\ pid_call = [op |-> "init", output |-> 0, since_reset |-> 0]

\* self.center_x of a 1280 pixel wide frame
PidSetpoint == FrameWidth \div 2

\* target x positions: the frame's edges, its centre and a point near it
PidMeasurements == {0, 640, 700, 1280}

PidTick ==
    /\ now < MaxPidTime
    /\ now' = now + 1
    /\ UNCHANGED <<managerVars, qrVars, controllerVars, lockVars, trackerVars,
                   nfzVars, servoVars, pidVars, kamikazeVars,
                   escapeVars, cameraVars>>

PidCompute ==
    \E process_variable \in PidMeasurements :
        LET r == pid_compute(PanPid, PidState, PidSetpoint, process_variable, now)
        IN /\ SetPid(r.pid)
           /\ pid_call' = [op |-> "compute", output |-> r.output,
                           since_reset |-> Min(pid_call.since_reset + 1, 2)]
           /\ UNCHANGED <<managerVars, now, qrVars, controllerVars, lockVars,
                          trackerVars, nfzVars, servoVars, kamikazeVars,
                          escapeVars, cameraVars>>

PidReset ==
    /\ SetPid(pid_reset(PidState))
    /\ pid_call' = [op |-> "reset", output |-> 0, since_reset |-> 0]
    /\ UNCHANGED <<managerVars, now, qrVars, controllerVars, lockVars, trackerVars,
                   nfzVars, servoVars, kamikazeVars,
                   escapeVars, cameraVars>>

PidNext == PidTick \/ PidCompute \/ PidReset

(***************************************************************************)
(* vision/mission/kamikaze_controller.py                                   *)
(* Positions are whole metres; a vector's components are thousandths.      *)
(***************************************************************************)
\* the largest r with r * r <= n, found by bisection between lo and hi
RECURSIVE SqrtBetween(_, _, _)
SqrtBetween(n, lo, hi) ==
    IF lo >= hi THEN lo
    ELSE LET mid == (lo + hi + 1) \div 2
         IN IF mid * mid <= n THEN SqrtBetween(n, mid, hi)
            ELSE SqrtBetween(n, lo, mid - 1)

ISqrt(n) == SqrtBetween(n, 0, Min(n, 46340))

\* np.linalg.norm of a vector of thousandths, in thousandths
Norm3(v) == ISqrt(v[1] * v[1] + v[2] * v[2] + v[3] * v[3])

\* the squared distance between two positions
DistanceSq(a, b) ==
    (a[1] - b[1]) * (a[1] - b[1]) + (a[2] - b[2]) * (a[2] - b[2])
    + (a[3] - b[3]) * (a[3] - b[3])

ZeroVector == <<0, 0, 0>>

\* sin(radians(dive_angle)) for the dive angle of 45.0 degrees
SinDiveAngle == 707

\* calculate_dive_path(our_position, target_position); the distance is kept in
\* hundredths of a metre
calculate_dive_path(our_position, target_position) ==
    LET distance == ISqrt(10000 * DistanceSq(target_position, our_position))
    IN IF distance > 0
       THEN LET movement_vector ==
                    <<Quotient(100000 * (target_position[1] - our_position[1]), distance),
                      Quotient(100000 * (target_position[2] - our_position[2]), distance),
                      -SinDiveAngle>>
                norm == Norm3(movement_vector)
            IN [i \in 1..3 |-> Quotient(1000 * movement_vector[i], norm)]
       ELSE ZeroVector

\* calculate_ascent_vector(our_position)
calculate_ascent_vector(our_position) == <<0, 0, 1000>>

\* min_altitude = 20.0
MinAltitude == 20

\* the distance below which read_qr_code reports a simulated read
SimulatedReadDistance == 20

NoDistance == -1

KamikazeState ==
    [qr_read_successful |-> qr_read_successful, last_distance |-> last_distance]

\* read_qr_code(frame): the simulated read when close to the target, else the
\* detector's outcome on the frame ("qr": decoded data with points; "blank":
\* nothing decoded; "raises": the detector raises and the error is printed)
read_qr_code(K, frame) ==
    IF K.last_distance # NoDistance
       /\ K.last_distance < SimulatedReadDistance * SimulatedReadDistance
    THEN [qr_data |-> "SIMULATED_QR_CODE",
          kamikaze |-> [K EXCEPT !.qr_read_successful = TRUE]]
    ELSE IF frame = "qr"
         THEN [qr_data |-> "QR_DATA",
               kamikaze |-> [K EXCEPT !.qr_read_successful = TRUE]]
         ELSE [qr_data |-> None, kamikaze |-> K]

\* an ascent that ends only above the minimum altitude
SafeAltitudeAbove(altitude) == altitude > MinAltitude

\* our_position[2] >= self.min_altitude
SafeAltitudeReached(altitude) == altitude >= MinAltitude

\* update(target_data, our_position, our_velocity, frame); approach_speed 1.0
kamikaze_update(K, target_pos, our_position, frame) ==
    LET K1 == [K EXCEPT !.last_distance = DistanceSq(target_pos, our_position)]
        read == IF frame # None THEN read_qr_code(K1, frame)
                ELSE [qr_data |-> None, kamikaze |-> K1]
        K2 == read.kamikaze
        result ==
            IF K2.qr_read_successful
            THEN IF SafeAltitudeReached(our_position[3])
                 THEN [vector |-> ZeroVector, message |-> "Reached safe altitude"]
                 ELSE [vector |-> calculate_ascent_vector(our_position),
                       message |-> "Ascending after QR read"]
            ELSE IF our_position[3] <= 0
                 THEN [vector |-> ZeroVector, message |-> "Reached ground level"]
                 ELSE [vector |-> calculate_dive_path(our_position, target_pos),
                       message |-> "Approaching target"]
    IN [kamikaze |-> K2, vector |-> result.vector, message |-> result.message,
        qr_data |-> read.qr_data]

kamikaze_reset(K) == [K EXCEPT !.qr_read_successful = FALSE]

SetKamikaze(K) ==
    /\ qr_read_successful' = K.qr_read_successful
    /\ last_distance' = K.last_distance

KamikazeInit ==
    /\ qr_read_successful = FALSE
    /\ last_distance = NoDistance
    /\ kamikaze_call = [op |-> "init", position |-> ZeroVector, frame |-> None,
                        message |-> None, vector |-> ZeroVector, qr_data |-> None]

\* the ground target, and UAV positions far from it, near it and above it, at
\* altitudes below the ground, on it, below, at and above the minimum altitude
KamikazeTarget == <<0, 0, 0>>

KamikazePositions ==
    {<<xy[1], xy[2], z>> : xy \in {<<0, 0>>, <<0, 10>>, <<30, 40>>},
                           z \in {-5, 0, 10, 20, 30}}

KamikazeFrames == {None, "blank", "qr", "raises"}

KamikazeUpdate ==
    \E our_position \in KamikazePositions, frame \in KamikazeFrames :
        LET r == kamikaze_update(KamikazeState, KamikazeTarget, our_position, frame)
        IN /\ SetKamikaze(r.kamikaze)
           /\ kamikaze_call' = [op |-> "update", position |-> our_position,
                                frame |-> frame, message |-> r.message,
                                vector |-> r.vector, qr_data |-> r.qr_data]
           /\ UNCHANGED <<managerVars, now, qrVars, controllerVars, lockVars,
                          trackerVars, nfzVars, servoVars, pidVars,
                          escapeVars, cameraVars>>

\* read_qr_code called on its own
KamikazeReadQr ==
    \E frame \in KamikazeFrames \ {None} :
        LET r == read_qr_code(KamikazeState, frame)
        IN /\ SetKamikaze(r.kamikaze)
           /\ kamikaze_call' = [op |-> "read_qr_code", position |-> ZeroVector,
                                frame |-> frame, message |-> None,
                                vector |-> ZeroVector, qr_data |-> r.qr_data]
           /\ UNCHANGED <<managerVars, now, qrVars, controllerVars, lockVars,
                          trackerVars, nfzVars, servoVars, pidVars,
                          escapeVars, cameraVars>>

KamikazeReset ==
    /\ SetKamikaze(kamikaze_reset(KamikazeState))
    /\ kamikaze_call' = [op |-> "reset", position |-> ZeroVector, frame |-> None,
                         message |-> None, vector |-> ZeroVector, qr_data |-> None]
    /\ UNCHANGED <<managerVars, now, qrVars, controllerVars, lockVars, trackerVars,
                   nfzVars, servoVars, pidVars,
                   escapeVars, cameraVars>>

KamikazeNext == KamikazeUpdate \/ KamikazeReadQr \/ KamikazeReset

(***************************************************************************)
(* vision/mission/escape_controller.py                                     *)
(* Positions and headings are vectors of whole metres.  The attributes     *)
(* last_enemy_position and current_maneuver are written by __init__ and    *)
(* reset only, always with None, and are left out.  The escape vector is   *)
(* kept as the parts it is built from: the vector away from the threat,    *)
(* the sign of the perpendicular component and the vertical correction.    *)
(***************************************************************************)
\* a key that the enemy_data dictionary does not hold
NoVector == <<>>

\* the defaults of enemy_data.get('position', ...) and .get('our_position', ...)
Origin == <<0, 0, 0>>

SafeDistance == 30

EscapeMinAltitude == 50

EscapeMaxAltitude == 100

TrajectoryCap == 50

Sub3(a, b) == <<a[1] - b[1], a[2] - b[2], a[3] - b[3]>>

Dot3(a, b) == a[1] * b[1] + a[2] * b[2] + a[3] * b[3]

EscapeState ==
    [is_escaping |-> is_escaping, escape_start_time |-> escape_start_time,
     escape_trajectory |-> escape_trajectory, last_perp |-> last_perp]

\* enemy_data.get(key, [0, 0, 0])
GetVector(value) == IF value = NoVector THEN Origin ELSE value

\* line 51: our_pos = np.array(enemy_data.get('our_position', [0, 0, 0]))
OwnPosition(enemy_data, our_position) == GetVector(enemy_data.our_position)

\* lines 67-71: abs(arccos(dot / (|direction| |to_us|))) < pi / 3, that is a
\* cosine above one half; a zero vector makes the quotient nan, and no
\* comparison with nan holds
IsFacing(enemy_direction, to_us) ==
    LET dot == Dot3(enemy_direction, to_us)
        norms2 == Dot3(enemy_direction, enemy_direction) * Dot3(to_us, to_us)
    IN /\ norms2 > 0
       /\ dot > 0
       /\ 4 * dot * dot > norms2

\* the decision of lines 50-76 for a threat at enemy_pos seen from our_pos
ThreatFrom(enemy_pos, enemy_direction, our_pos) ==
    LET to_us == Sub3(our_pos, enemy_pos)
        is_in_range == Dot3(to_us, to_us) < (2 * SafeDistance) * (2 * SafeDistance)
        is_above == enemy_pos[3] > our_pos[3]
        is_facing_us == IF enemy_direction # NoVector
                        THEN IsFacing(enemy_direction, to_us)
                        ELSE TRUE
    IN (is_in_range /\ is_above) \/ (is_in_range /\ is_facing_us)

\* not enemy_data: the dictionary holds no key
EmptyData(enemy_data) ==
    /\ enemy_data.position = NoVector
    /\ enemy_data.direction = NoVector
    /\ enemy_data.our_position = NoVector

\* detect_enemy_lock(enemy_data), called by update(enemy_data, our_position, ...)
detect_enemy_lock(enemy_data, our_position) ==
    IF EmptyData(enemy_data)
    THEN FALSE
    ELSE ThreatFrom(GetVector(enemy_data.position), enemy_data.direction,
                    OwnPosition(enemy_data, our_position))

NoEscapeVector == [away |-> Origin, perp |-> 0, vertical |-> "none"]

\* calculate_escape_vector(our_position, enemy_position); sign is the value
\* drawn for last_perp when it is drawn
calculate_escape_vector(E, our_position, enemy_position, resample, sign) ==
    LET direction == Sub3(our_position, enemy_position)
        perp == IF E.last_perp = 0 \/ resample THEN sign ELSE E.last_perp
    IN IF Dot3(direction, direction) > 0
       THEN [vector |-> [away |-> direction, perp |-> perp,
                         vertical |-> IF our_position[3] < EscapeMinAltitude THEN "up"
                                      ELSE IF our_position[3] > EscapeMaxAltitude
                                           THEN "down" ELSE "oscillating"],
             escape |-> [E EXCEPT !.last_perp = perp]]
       ELSE [vector |-> NoEscapeVector, escape |-> E]

\* the trajectory with a point appended, its oldest point dropped above the cap
AppendPoint(trajectory, point) ==
    LET longer == Append(trajectory, point)
    IN IF Len(longer) > TrajectoryCap THEN Tail(longer) ELSE longer

\* update(enemy_data, our_position, our_velocity, frame) at clock reading t
escape_update(E, enemy_data, our_position, t, resample, sign) ==
    LET enemy_pos == GetVector(enemy_data.position)
        enemy_lock == detect_enemy_lock(enemy_data, our_position)
        E1 == IF ~E.is_escaping
              THEN [E EXCEPT !.is_escaping = TRUE, !.escape_start_time = t,
                             !.escape_trajectory = <<>>]
              ELSE E
        v == calculate_escape_vector(E1, our_position, enemy_pos, resample, sign)
    IN IF enemy_lock
       THEN [commands |-> [escape |-> TRUE, vector |-> v.vector,
                           message |-> "Executing escape maneuver"],
             escape |-> [v.escape EXCEPT
                            !.escape_trajectory =
                                AppendPoint(@, <<our_position[1], our_position[2]>>)]]
       ELSE [commands |-> [escape |-> FALSE, vector |-> NoEscapeVector,
                           message |-> "Monitoring"],
             escape |-> [E EXCEPT !.is_escaping = FALSE,
                                  !.escape_start_time = NoTime,
                                  !.escape_trajectory = <<>>]]

\* reset()
escape_reset(E) ==
    [E EXCEPT !.is_escaping = FALSE, !.escape_start_time = NoTime,
              !.escape_trajectory = <<>>]

SetEscape(E) ==
    /\ is_escaping' = E.is_escaping
    /\ escape_start_time' = E.escape_start_time
    /\ escape_trajectory' = E.escape_trajectory
    /\ last_perp' = E.last_perp

EscapeInit ==
    /\ is_escaping = FALSE
    /\ escape_start_time = NoTime
    /\ escape_trajectory = <<>>
    /\ last_perp = 0
    /\ escape_call = [op |-> "init"]

\* where the threat is reported: close above, close below, far away
ThreatPositions == {<<10, 0, 70>>, <<10, 0, 40>>, <<100, 0, 70>>}

\* the threat's heading: unknown, along -x, along +x
ThreatDirections == {NoVector, <<-1, 0, 0>>, <<1, 0, 0>>}

\* the UAV's own position: next to the threat, or far from it
OwnPositions == {<<0, 0, 60>>, <<500, 0, 60>>}

\* the dictionaries handed to update: empty, or a threat position with or
\* without a heading and with or without an 'our_position' entry
EnemyData ==
    {[position |-> NoVector, direction |-> NoVector, our_position |-> NoVector]}
    \cup [position : ThreatPositions, direction : ThreatDirections,
          our_position : {NoVector} \cup OwnPositions]

EscapeTick ==
    /\ now < MaxEscapeTime
    /\ now' = now + 1
    /\ UNCHANGED <<managerVars, qrVars, controllerVars, lockVars, trackerVars,
                   nfzVars, servoVars, pidVars, kamikazeVars, escapeVars,
                   cameraVars>>

EscapeUpdate ==
    \E enemy_data \in EnemyData, our_position \in OwnPositions,
       resample \in BOOLEAN, sign \in {1, -1} :
        LET r == escape_update(EscapeState, enemy_data, our_position, now,
                               resample, sign)
        IN /\ Len(escape_trajectory) <= MaxEscapePoints
           /\ SetEscape(r.escape)
           /\ escape_call' = [op |-> "update", enemy_data |-> enemy_data,
                              our_position |-> our_position,
                              commands |-> r.commands]
           /\ UNCHANGED <<managerVars, now, qrVars, controllerVars, lockVars,
                          trackerVars, nfzVars, servoVars, pidVars, kamikazeVars,
                          cameraVars>>

EscapeReset ==
    /\ SetEscape(escape_reset(EscapeState))
    /\ escape_call' = [op |-> "reset"]
    /\ UNCHANGED <<managerVars, now, qrVars, controllerVars, lockVars, trackerVars,
                   nfzVars, servoVars, pidVars, kamikazeVars, cameraVars>>

EscapeNext == EscapeTick \/ EscapeUpdate \/ EscapeReset

(***************************************************************************)
(* vision/targeting/camera_controller.py: CameraController                 *)
(* Rates are thousandths of a degree per second as in the PIDController    *)
(* section; an angle is a rate times a number of ticks.                    *)
(***************************************************************************)
\* tilt_pid = PIDController(kp=0.04, ki=0.008, kd=0.015, -max_tilt_rate,
\* max_tilt_rate) with max_tilt_rate = 20.0
TiltPid ==
    [kp |-> 40, ki |-> 4, kd |-> 30, min_output |-> -20000, max_output |-> 20000]

\* no target position, no angles
NoPosition == <<>>

TrackingHistoryCap == 100

\* target_zone of a 1280 x 720 frame with target_zone_margin = 0.1
TargetZone ==
    [x1 |-> FrameWidth \div 2 - FrameWidth \div 10,
     y1 |-> FrameHeight \div 2 - FrameHeight \div 10,
     x2 |-> FrameWidth \div 2 + FrameWidth \div 10,
     y2 |-> FrameHeight \div 2 + FrameHeight \div 10]

CameraState ==
    [pan_pid |-> pan_pid, tilt_pid |-> tilt_pid, is_tracking |-> is_tracking,
     last_target_position |-> last_target_position,
     current_pan_angle |-> current_pan_angle,
     current_tilt_angle |-> current_tilt_angle,
     tracking_history |-> tracking_history,
     last_update_time |-> last_update_time]

\* is_target_in_zone(target_position)
is_target_in_zone(target_position) ==
    /\ TargetZone.x1 <= target_position[1]
    /\ target_position[1] <= TargetZone.x2
    /\ TargetZone.y1 <= target_position[2]
    /\ target_position[2] <= TargetZone.y2

\* a controller that never idles
NeverIdle(in_zone, tracking) == FALSE

\* line 196: if in_zone and self.is_tracking
IdleInZone(in_zone, tracking) == in_zone /\ tracking

\* the history with an entry appended, its oldest entry dropped above the cap
AppendTracking(history, entry) ==
    LET longer == Append(history, entry)
    IN IF Len(longer) > TrackingHistoryCap THEN Tail(longer) ELSE longer

\* calculate_camera_movement(target_position, current_time)
calculate_camera_movement(C, target_position, current_time) ==
    LET in_zone == is_target_in_zone(target_position)
        pan == pid_compute(PanPid, C.pan_pid, FrameWidth \div 2,
                           target_position[1], current_time)
        tilt == pid_compute(TiltPid, C.tilt_pid, FrameHeight \div 2,
                            target_position[2], current_time)
        dt == current_time - C.last_update_time
        pan_angle == C.current_pan_angle + pan.output * dt
        tilt_angle == C.current_tilt_angle + tilt.output * dt
    IN IF C.last_update_time = NoTime
       THEN [commands |-> [pan |-> 0, tilt |-> 0, in_zone |-> FALSE,
                           angles |-> NoPosition],
             camera |-> [C EXCEPT !.last_update_time = current_time,
                                  !.last_target_position = target_position]]
       ELSE IF IdleInZone(in_zone, C.is_tracking)
       THEN [commands |-> [pan |-> 0, tilt |-> 0, in_zone |-> TRUE,
                           angles |-> NoPosition],
             camera |-> C]
       ELSE [commands |-> [pan |-> pan.output, tilt |-> tilt.output,
                           in_zone |-> in_zone,
                           angles |-> <<pan_angle, tilt_angle>>],
             camera |-> [pan_pid |-> pan.pid, tilt_pid |-> tilt.pid,
                         is_tracking |-> TRUE,
                         last_target_position |-> target_position,
                         current_pan_angle |-> pan_angle,
                         current_tilt_angle |-> tilt_angle,
                         tracking_history |->
                             AppendTracking(C.tracking_history,
                                            [time |-> current_time,
                                             position |-> target_position,
                                             pan |-> pan_angle,
                                             tilt |-> tilt_angle,
                                             in_zone |-> in_zone]),
                         last_update_time |-> current_time]]

\* update(target_data, frame) for target data without a position
camera_update_no_target(C) == [C EXCEPT !.is_tracking = FALSE]

\* reset()
camera_reset(C) ==
    [pan_pid |-> pid_reset(C.pan_pid), tilt_pid |-> pid_reset(C.tilt_pid),
     is_tracking |-> FALSE, last_target_position |-> NoPosition,
     current_pan_angle |-> 0, current_tilt_angle |-> 0,
     tracking_history |-> <<>>, last_update_time |-> NoTime]

SetCamera(C) ==
    /\ pan_pid' = C.pan_pid
    /\ tilt_pid' = C.tilt_pid
    /\ is_tracking' = C.is_tracking
    /\ last_target_position' = C.last_target_position
    /\ current_pan_angle' = C.current_pan_angle
    /\ current_tilt_angle' = C.current_tilt_angle
    /\ tracking_history' = C.tracking_history
    /\ last_update_time' = C.last_update_time

CameraInit ==
    /\ pan_pid = [previous_error |-> 0, integral |-> 0, last_time |-> NoTime]
    /\ tilt_pid = [previous_error |-> 0, integral |-> 0, last_time |-> NoTime]
    /\ is_tracking = FALSE
    /\ last_target_position = NoPosition
    /\ current_pan_angle = 0
    /\ current_tilt_angle = 0
    /\ tracking_history = <<>>
    /\ last_update_time = NoTime
    /\ camera_call = [op |-> "init"]

\* target positions: inside the target zone, on its corner, in the frame's corner
CameraTargets == {<<700, 400>>, <<768, 432>>, <<1280, 0>>}

CameraTick ==
    /\ now < MaxCameraTime
    /\ now' = now + 1
    /\ UNCHANGED <<managerVars, qrVars, controllerVars, lockVars, trackerVars,
                   nfzVars, servoVars, pidVars, kamikazeVars, escapeVars,
                   cameraVars>>

\* calculate_camera_movement(target_position), also as update calls it for
\* target data with a centroid
CameraCalculate ==
    \E target_position \in CameraTargets :
        LET r == calculate_camera_movement(CameraState, target_position, now)
        IN /\ Len(tracking_history) <= MaxCameraHistory
           /\ SetCamera(r.camera)
           /\ camera_call' = [op |-> "calculate",
                              target_position |-> target_position,
                              before |-> CameraState, commands |-> r.commands]
           /\ UNCHANGED <<managerVars, now, qrVars, controllerVars, lockVars,
                          trackerVars, nfzVars, servoVars, pidVars, kamikazeVars,
                          escapeVars>>

\* update(target_data) for target data with neither centroid nor bbox
CameraUpdateNoTarget ==
    /\ SetCamera(camera_update_no_target(CameraState))
    /\ camera_call' = [op |-> "update"]
    /\ UNCHANGED <<managerVars, now, qrVars, controllerVars, lockVars, trackerVars,
                   nfzVars, servoVars, pidVars, kamikazeVars, escapeVars>>

CameraReset ==
    /\ SetCamera(camera_reset(CameraState))
    /\ camera_call' = [op |-> "reset"]
    /\ UNCHANGED <<managerVars, now, qrVars, controllerVars, lockVars, trackerVars,
                   nfzVars, servoVars, pidVars, kamikazeVars, escapeVars>>

CameraNext == CameraTick \/ CameraCalculate \/ CameraUpdateNoTarget \/ CameraReset

(***************************************************************************)
(* main.py: UAVSystem.run, one iteration of the main loop per frame.       *)
(* The loop owns a QRProcessor, a MissionController, a KalmanTracker and a *)
(* TargetLockSystem; nothing else calls their methods.                     *)
(***************************************************************************)
\* what the QR detector finds in a frame: nothing, or one well-formed command
PipelineTexts ==
    {None,
     create_qr_command("KAMIKAZE", {<<"target_id", "UAV_001">>}),
     create_qr_command("LOCK", {<<"target_id", "UAV_001">>}),
     create_qr_command("ESCAPE", {<<"direction", "NORTH">>})}

\* what the object detector finds in a frame: nothing, or a UAV at the centre
PipelineDetections == {<<>>, <<DetectionAt(<<640, 360>>)>>}

PipelineTick ==
    /\ now + PipelineClockStep <= MaxPipelineTime
    /\ now' = now + PipelineClockStep
    /\ UNCHANGED <<managerVars, qrVars, controllerVars, lockVars, trackerVars,
                   nfzVars, servoVars, pidVars, kamikazeVars,
                   escapeVars, cameraVars>>

\* a loop that passes only the KAMIKAZE state by
LockSkippedInKamikaze(state) == state = "KAMIKAZE"

\* lines 173-179: the branches of the mission state that end in pass
LockSkipped(state) == state \in {"KAMIKAZE", "ESCAPING"}

\* lines 157-182: QR commands, detection, tracker update, and the lock
\* evaluator's update unless the mission state is KAMIKAZE or ESCAPING
PipelineFrame ==
    \E text \in PipelineTexts, detections \in PipelineDetections :
        LET q == IF text = None
                 THEN [outcome |-> "None", info |-> None, qr |-> QrState]
                 ELSE process_qr_data(QrState, text, now)
            r == IF q.outcome = "command"
                 THEN process_command(ControllerState, q.info, now)
                 ELSE [result |-> FALSE, ctl |-> ControllerState]
            tr == tracker_update(TrackerState, detections)
            skip_lock == LockSkipped(r.ctl.current_state)
        IN /\ Len(frames) < MaxPipelineFrames
           /\ Len(q.qr.command_history) <= MaxPipelineCommands
           /\ Len(r.ctl.state_history) <= MaxTransitions
           /\ SetQr(q.qr)
           /\ qr_call' = IF text = None THEN qr_call
                         ELSE [op |-> "main", text |-> text, outcome |-> q.outcome]
           /\ guard_result' = IF q.outcome # "command" THEN guard_result
                              ELSE IF r.result THEN "True" ELSE "False"
           /\ SetController(r.ctl)
           /\ controller_call' =
                IF q.outcome = "command"
                THEN [op |-> "process_command", command |-> q.info.type,
                      result |-> IF r.result THEN "True" ELSE "False"]
                ELSE controller_call
           /\ SetTracker(tr.tracker)
           /\ frames' = Append(frames, detections)
           /\ unmatched_calls' =
                [i \in 0..(tr.tracker.next_object_id - 1) |->
                    IF i >= next_object_id \/ i \in matched_ids(TrackerState, detections)
                    THEN 0 ELSE unmatched_calls[i] + 1]
           /\ tracker_call' = [op |-> "update", tracked_objects |-> tr.tracked_objects,
                                before |-> StoredCentroids(TrackerState)]
           /\ IF skip_lock
              THEN UNCHANGED lockVars
              ELSE /\ SetLock(lock_update(LockState, tr.tracked_objects, now))
                   /\ lock_call' =
                        [op |-> "update", tracks |-> Len(tr.tracked_objects),
                         obj_id |-> IF Len(tr.tracked_objects) = 0 THEN NoTrack
                                    ELSE tr.tracked_objects[1].id,
                         in_lock_zone |->
                            /\ Len(tr.tracked_objects) > 0
                            /\ is_point_in_lock_zone(tr.tracked_objects[1].centroid)]
                   /\ evaluated' =
                        IF \/ Len(tr.tracked_objects) = 0
                           \/ tr.tracked_objects[1].id \in SeqRange(evaluated)
                        THEN evaluated
                        ELSE Append(evaluated, tr.tracked_objects[1].id)
           /\ UNCHANGED <<managerVars, now, nfzVars, servoVars, pidVars, kamikazeVars,
                          escapeVars, cameraVars>>

PipelineNext == PipelineTick \/ PipelineFrame

(***************************************************************************)
(* Specifications.                                                         *)
(***************************************************************************)
\* time.time() counts from the epoch: the first reading is not 0
Init ==
    /\ now = 1
    /\ ManagerInit
    /\ QrInit
    /\ ControllerInit
    /\ LockInit
    /\ TrackerInit
    /\ NfzInit
    /\ ServoInit
    /\ PidInit
    /\ KamikazeInit
    /\ EscapeInit
    /\ CameraInit

Next == ManagerNext \/ QrNext \/ ControllerNext \/ CommandNext \/ LockNext
        \/ TrackerNext \/ NfzNext \/ ServoNext \/ PidNext \/ KamikazeNext
        \/ PipelineNext \/ EscapeNext \/ CameraNext

Spec == Init /\ [][Next]_vars

SpecManager == Init /\ [][ManagerNext]_vars

\* update() is called again and again, and a started mission is eventually
\* reported finished; create_mission is called at most MaxMissions times
SpecStarvation ==
    Init /\ [][StarvationNext]_vars /\ WF_vars(Update) /\ WF_vars(FinishStarted)

SpecQr == Init /\ [][QrNext]_vars

SpecController == Init /\ [][ControllerNext]_vars

\* a controller whose owner has made StateHistoryCap - 1 transitions between
\* IDLE and SEARCHING with update_state
LongHistory ==
    [i \in 1..(StateHistoryCap - 1) |->
        [state |-> IF i % 2 = 1 THEN "SEARCHING" ELSE "IDLE",
         timestamp |-> 1,
         previous_state |-> IF i % 2 = 1 THEN "IDLE" ELSE "SEARCHING"]]

InitHistory ==
    /\ now = 1
    /\ ManagerInit
    /\ QrInit
    /\ current_state = LongHistory[Len(LongHistory)].state
    /\ previous_state = LongHistory[Len(LongHistory)].previous_state
    /\ state_change_time = now
    /\ mission_data = {}
    /\ state_history = LongHistory
    /\ controller_call = [op |-> "update_state", command |-> None, result |-> None]
    /\ history_dropped = 0
    /\ LockInit
    /\ TrackerInit
    /\ NfzInit
    /\ ServoInit
    /\ PidInit
    /\ KamikazeInit
    /\ EscapeInit
    /\ CameraInit

SpecHistory == InitHistory /\ [][ControllerNext]_vars

SpecCommand == Init /\ [][CommandNext]_vars

SpecLock == Init /\ [][LockNext]_vars

SpecTracker == Init /\ [][TrackerNext]_vars

SpecNfz == Init /\ [][NfzNext]_vars

SpecServo == Init /\ [][ServoNext]_vars

SpecPid == Init /\ [][PidNext]_vars

SpecKamikaze == Init /\ [][KamikazeNext]_vars

SpecEscape == Init /\ [][EscapeNext]_vars

SpecCamera == Init /\ [][CameraNext]_vars

SpecPipeline == Init /\ [][PipelineNext]_vars

(***************************************************************************)
(* Claims about the mission priority manager (SpecManager).                *)
(***************************************************************************)
\* The urgency order the specification states: CRITICAL > HIGH > MEDIUM > LOW.
UrgencyRank(p) ==
    CASE p = "CRITICAL" -> 4
      [] p = "HIGH"     -> 3
      [] p = "MEDIUM"   -> 2
      [] p = "LOW"      -> 1

PendingIds == {i \in SeqRange(active_missions) : missions[i].status = "PENDING"}

MoreUrgent(p, c) ==
    UrgencyRank(missions[p].priority) > UrgencyRank(missions[c].priority)

TerminalStatus == {"COMPLETED", "FAILED", "INTERRUPTED"}

\* C1: priority preemption.  Whenever update() runs with a current ACTIVE
\* mission c and some PENDING mission more urgent than c, it leaves c
\* INTERRUPTED and a formerly pending, more urgent mission current and ACTIVE.
C1_PriorityPreemption ==
    [][(/\ Update
        /\ current_mission # 0
        /\ missions[current_mission].status = "ACTIVE"
        /\ \E p \in PendingIds : MoreUrgent(p, current_mission))
       => (/\ missions'[current_mission].status = "INTERRUPTED"
           /\ current_mission' \in PendingIds
           /\ MoreUrgent(current_mission', current_mission)
           /\ missions'[current_mission'].status = "ACTIVE")]_vars

\* C2: selection.  Whenever update() runs with no current mission and at least
\* one PENDING mission, the mission it makes current and ACTIVE was PENDING
\* and no PENDING mission was more urgent than it.
C2_SelectsMostUrgent ==
    [][(Update /\ current_mission = 0 /\ PendingIds # {})
       => (/\ current_mission' \in PendingIds
           /\ missions'[current_mission'].status = "ACTIVE"
           /\ \A q \in PendingIds : ~MoreUrgent(q, current_mission'))]_vars

\* C3: archiving.  A mission whose status is terminal (COMPLETED, FAILED or
\* INTERRUPTED) is not in the active set, is in the history, and is not the
\* current mission.
C3_TerminalIsArchived ==
    \A i \in 1..Len(missions) :
        missions[i].status \in TerminalStatus
            => /\ i \notin SeqRange(active_missions)
               /\ i \in SeqRange(mission_history)
               /\ current_mission # i

(***************************************************************************)
(* Claims about the mission state machine (SpecController).                *)
(***************************************************************************)
\* The guard table of the specification.
GuardHolds(c, s) ==
    CASE c = "KAMIKAZE" -> s \in {"LOCKED", "TRACKING"}
      [] c = "ESCAPE" -> s # "EMERGENCY"
      [] c = "LOCK" -> s = "TRACKING"
      [] c \in {"MISSION_UPDATE", "STATUS_REQUEST"} -> TRUE

TableResult(c, s) ==
    CASE c = "KAMIKAZE" -> "KAMIKAZE"
      [] c = "ESCAPE" -> "ESCAPING"
      [] c = "LOCK" -> "LOCKING"
      [] c \in {"MISSION_UPDATE", "STATUS_REQUEST"} -> s

\* C4: mission guard table.  Every process_command call returns True exactly
\* when the table's guard holds in the state it is called in; it then ends in
\* the table's result state; and when the guard does not hold the current
\* state, previous state, mission data and transition history are unchanged.
C4_GuardTable ==
    [][ProcessCommand =>
        LET c == controller_call'.command
            ok == GuardHolds(c, current_state)
        IN /\ (controller_call'.result = "True") <=> ok
           /\ controller_call'.result \in {"True", "False"}
           /\ ok => current_state' = TableResult(c, current_state)
           /\ ~ok => UNCHANGED <<current_state, previous_state, mission_data,
                                 state_history>>]_vars

\* LOCK was sent in SEARCHING and rejected
C4_Witness ==
    /\ controller_call = [op |-> "process_command", command |-> "LOCK",
                          result |-> "False"]
    /\ current_state = "SEARCHING"
    /\ Len(state_history) = 1

(***************************************************************************)
(* Claims about the QR processor (SpecQr) and the command path             *)
(* (SpecCommand).                                                          *)
(***************************************************************************)
\* C5: command cooldown.  No two accepted commands of the same type are less
\* than the cooldown apart, whatever was accepted between them (the command
\* history holds the accepted commands with their acceptance times).
C5_CooldownPerType ==
    \A i, j \in 1..Len(command_history) :
        (i < j /\ command_history[i].type = command_history[j].type)
            => command_history[j].timestamp - command_history[i].timestamp
                   >= CommandCooldown

\* the command type a text carries
TextType(text) == json_loads(text).command

AdjacentSpacing ==
    \A i \in 1..(Len(command_history) - 1) :
        command_history[i].type = command_history[i + 1].type
            => command_history[i + 1].timestamp - command_history[i].timestamp
                   >= CommandCooldown

\* C6: repeated identical command.  In the main loop, a command text whose
\* type is the type accepted last, presented less than the cooldown after
\* that acceptance, is dropped: process_qr_data returns None, the cooldown
\* window (last_command_time) is not restarted and the mission controller
\* makes no transition; and two acceptances of one type with no other
\* acceptance between them are at least the cooldown apart.
C6_RepeatDropped ==
    [][/\ (/\ MainQrCommand
           /\ qr_call'.text \notin MalformedTexts
           /\ last_command = TextType(qr_call'.text)
           /\ last_command_time # NoTime
           /\ now - last_command_time < CommandCooldown)
          => (/\ qr_call'.outcome = "None"
              /\ UNCHANGED <<last_command, last_command_time, command_history>>
              /\ UNCHANGED <<current_state, previous_state, state_history>>)
       /\ AdjacentSpacing']_vars

\* in TRACKING, KAMIKAZE was accepted and made the one transition; presented
\* again half a second later it was dropped
C6_Witness ==
    /\ qr_call = [op |-> "main",
                  text |-> create_qr_command("KAMIKAZE", {<<"target_id", "UAV_001">>}),
                  outcome |-> "None"]
    /\ last_command = "KAMIKAZE"
    /\ now - last_command_time = 1
    /\ Len(command_history) = 1
    /\ current_state = "KAMIKAZE"
    /\ previous_state = "TRACKING"
    /\ Len(state_history) = 2

\* C7: malformed QR payloads.  process_qr_data on a text that is no
\* well-formed command returns None without raising and leaves last_command,
\* last_command_time and the command history unchanged.
C7_MalformedIgnored ==
    [][(ProcessQrData /\ qr_call'.text \in MalformedTexts)
       => (/\ qr_call'.outcome = "None"
           /\ UNCHANGED <<last_command, last_command_time, command_history>>)]_vars

\* C8: lock timing.  Timing starts only in an update with the centroid inside
\* the lock zone and the hysteresis counter at 2 or more, and starts at that
\* update's clock reading; is_locked is never true less than required_lock_time
\* after that start; and every such in-zone update sets is_locked exactly when
\* the elapsed time since the start has reached required_lock_time.
TimingStarts == NoStartTime(LockState) /\ lock_start_time' # NoTime

C8_LockTiming ==
    [][ /\ (is_locked' =>
              /\ lock_start_time' # NoTime
              /\ now' - lock_start_time' >= RequiredLockTime)
        /\ (TimingStarts =>
              /\ LockUpdate
              /\ lock_call'.in_lock_zone
              /\ lock_hysteresis' >= 2
              /\ lock_start_time' = now)
        /\ (LockUpdate /\ lock_call'.in_lock_zone /\ lock_hysteresis' >= 2 =>
              /\ lock_start_time' # NoTime
              /\ is_locked' = (now - lock_start_time' >= RequiredLockTime)) ]_vars

\* an in-zone update that declares the lock exactly at the required time
C8_Witness ==
    /\ lock_call.op = "update"
    /\ lock_call.in_lock_zone
    /\ is_locked
    /\ now - lock_start_time = RequiredLockTime

\* C9: lock hysteresis tolerance.  While lock_start_time is set, an update that
\* misses the lock zone and leaves the hysteresis counter above -3 changes
\* neither lock_start_time nor the current target id, and an update that clears
\* lock_start_time is one that brought the counter to -3.
C9_HysteresisTolerance ==
    [][ LockUpdate /\ lock_start_time # NoTime =>
          /\ (~lock_call'.in_lock_zone /\ lock_hysteresis' > -3 =>
                /\ lock_start_time' = lock_start_time
                /\ current_target_id' = current_target_id)
          /\ (lock_start_time' = NoTime =>
                /\ ~lock_call'.in_lock_zone
                /\ lock_hysteresis > -3
                /\ lock_hysteresis' = -3) ]_vars

\* a timer that has survived excursions down to a counter of -2
C9_Witness ==
    /\ lock_call.op = "update"
    /\ lock_call.tracks = 1
    /\ ~lock_call.in_lock_zone
    /\ lock_start_time # NoTime
    /\ current_target_id # NoTrack
    /\ lock_hysteresis = -2

\* C10: tracker identity stability.  While every update so far carried exactly
\* one detection whose centroid lies less than max_distance from that of the
\* previous frame, only the first track has been registered and the update
\* returns the detection under that track's id alone.
SmoothStream ==
    /\ Len(frames) >= 1
    /\ \A k \in 1..Len(frames) : Len(frames[k]) = 1
    /\ \A k \in 2..Len(frames) :
          Dist2(detection_centroid(frames[k - 1][1]),
                detection_centroid(frames[k][1])) < MaxDistance * MaxDistance

C10_IdentityStable ==
    SmoothStream =>
        /\ next_object_id = 1
        /\ Len(tracker_call.tracked_objects) = 1
        /\ tracker_call.tracked_objects[1].id = 0

\* the keys of the mapping returned by the last update call
ResultIds ==
    {tracker_call.tracked_objects[k].id : k \in 1..Len(tracker_call.tracked_objects)}

ResultOf(id) ==
    tracker_call.tracked_objects[
        CHOOSE k \in 1..Len(tracker_call.tracked_objects) :
            tracker_call.tracked_objects[k].id = id]

\* the ids registered in the tracker
RegisteredIds == {objects[k].id : k \in 1..Len(objects)}

\* the part of C11 about the calls up to and including the deregistering one:
\* a track unmatched for 1..max_disappeared consecutive calls is registered and
\* reported with confidence 0.5 and a 100x100 box around its centroid, and at
\* max_disappeared+1 it is no longer registered
DeregistrationTiming ==
    \A id \in DOMAIN unmatched_calls :
        /\ (unmatched_calls[id] \in 1..MaxDisappeared =>
              /\ id \in RegisteredIds
              /\ id \in ResultIds
              /\ ResultOf(id).confidence = PredictionConfidence
              /\ ResultOf(id).bbox = EstimatedBbox(ResultOf(id).centroid))
        /\ (unmatched_calls[id] > MaxDisappeared => id \notin RegisteredIds)
        /\ (unmatched_calls[id] = MaxDisappeared + 1 => id \notin ResultIds)

\* C11: tracker deregistration.  A track unmatched for max_disappeared+1 or more
\* consecutive calls is absent from the result of the last call (the call that
\* deregisters it and every later one), and a track unmatched for at most
\* max_disappeared consecutive calls is reported as a prediction.
C11_Deregistration ==
    /\ DeregistrationTiming
    /\ \A id \in DOMAIN unmatched_calls :
          unmatched_calls[id] > MaxDisappeared => id \notin ResultIds

\* C12: track ids are never reused.  Every key of the mapping returned by
\* update is the id of a track registered in the tracker, and no key is an id
\* that was registered and has been deregistered.
C12_IdsNeverReused ==
    tracker_call.op = "update" =>
        /\ ResultIds \subseteq RegisteredIds
        /\ \A id \in ResultIds : ~(id < next_object_id /\ id \notin RegisteredIds)

\* C13: no-fly-zone violation accrual.  For a zone that was active at every
\* update call, total_violation_time is the sum of the gaps between consecutive
\* update calls that both found the UAV inside it, and its last-check timestamp
\* is cleared when the last update found the UAV outside; when that holds of
\* every zone, total_penalty_points is the penalty rate times the sum of those
\* times over all zones.
C13_ViolationAccrual ==
    /\ \A z \in DOMAIN zones :
          active_throughout[z] =>
             /\ zones[z].total_violation_time = inside_time[z]
             /\ (nfz_previous.time # NoTime /\ z \notin nfz_previous.inside =>
                    zones[z].last_violation_check = NoTime)
    /\ ((\A z \in DOMAIN zones : active_throughout[z]) =>
           total_penalty_points =
               PenaltyPointsPerSecond * SumOver(inside_time, DOMAIN zones))

\* a zone, always active, that the UAV left and re-entered after accruing time,
\* with penalty points accrued
C13_Witness ==
    \E z \in DOMAIN zones :
        /\ active_throughout[z]
        /\ left_and_returned[z]
        /\ z \in nfz_previous.inside
        /\ zones[z].total_violation_time >= 1
        /\ zones[z].total_violation_time < now - 2
        /\ total_penalty_points >= PenaltyPointsPerSecond

\* C20: emergency landing flag.  The result of update has
\* emergency_landing_required true exactly when some zone's total_violation_time
\* has reached max_violation_time, and over update, activate_zone and
\* deactivate_zone calls a flag once reported true is true in every later result.
C20_EmergencyFlag ==
    [][ /\ (nfz_call'.op = "update" =>
              nfz_call'.result.emergency_landing_required =
                 (\E z \in DOMAIN zones' :
                     zones'[z].total_violation_time >= MaxViolationTime))
        /\ (nfz_call.result.emergency_landing_required =>
              nfz_call'.result.emergency_landing_required) ]_vars

\* the flag reported by an update that found no violation, for a zone that
\* reached the maximum and was then deactivated
C20_Witness ==
    /\ nfz_call.op = "update"
    /\ nfz_call.result.emergency_landing_required
    /\ ~nfz_call.result.in_violation
    /\ \E z \in DOMAIN zones :
          /\ ~zones[z].is_active
          /\ zones[z].total_violation_time = MaxViolationTime

\* C14: servo start/stop idempotence.  At most one thread created by start() is
\* inside the actuation loop at any time, whatever the sequence of start() and
\* stop() calls and whether or not stop()'s join timed out.
C14_SingleLoopThread ==
    Cardinality({k \in DOMAIN loops : loops[k].pc # "done"}) <= 1

\* C15: servo stop.  When stop() has returned, in simulation mode as in hardware
\* mode, it has issued the recentring calls for both axes and then the disabling
\* calls, and in hardware mode both channels are disabled.
C15_StopRecentersAndDisables ==
    (servo_main.pc = "idle" /\ servo_main.last_op = "stop") =>
        /\ Len(stop_calls) >= 3
        /\ stop_calls[1] = [pin |-> PanPin, pulse |-> PanPulse(0)]
        /\ stop_calls[2] = [pin |-> TiltPin, pulse |-> TiltPulse(0)]
        /\ stop_calls[3] = [pin |-> PanPin, pulse |-> 0]
        /\ (~simulation_mode => pulsewidth = [pan |-> 0, tilt |-> 0])

\* the same statement for hardware mode alone
StopInHardwareMode == simulation_mode \/ C15_StopRecentersAndDisables

\* C16: guarded shared setpoint.  The pan target and the tilt target used by an
\* iteration of the actuation loop were written by the same set_angles call (or
\* are both the constructor's).
C16_AtomicSetpoint ==
    servo_ticks > 0 => last_tick.pan_writer = last_tick.tilt_writer

\* C17: PID first call.  The first compute() after construction or after
\* reset() returns 0 whatever the measurement, leaves the integral at 0 and
\* records the call's clock reading, and every value returned by a compute()
\* lies within [min_output, max_output].
C17_PidFirstCall ==
    [][ PidCompute =>
          /\ (pid_call'.since_reset = 1 =>
                /\ pid_call'.output = 0
                /\ integral = 0
                /\ integral' = 0
                /\ last_time' = now)
          /\ PanPid.min_output <= pid_call'.output
          /\ pid_call'.output <= PanPid.max_output ]_vars

\* a compute() after a reset and a first call, whose output sits on the upper
\* limit with an integral that has accumulated
C17_Witness ==
    /\ pid_call.op = "compute"
    /\ pid_call.since_reset = 2
    /\ pid_call.output = PanPid.max_output
    /\ integral > 0

\* the mapping in which the i-th track id first evaluated has the i-th label
LabelsInOrder ==
    {<<evaluated[i], uav_label(i)>> : i \in 1..Len(evaluated)}

\* C18: UAV identity mapping.  Over any sequence of update and reset_lock
\* calls the track-id-to-label mapping only grows (so a label never changes),
\* no two track ids share a label, the labels are UAV_001, UAV_002, ... in
\* order of first evaluation, and total_tracked_uavs in the status is the
\* number of distinct track ids evaluated so far.
C18_IdentityMapping ==
    [][ /\ tracked_uavs \subseteq tracked_uavs'
        /\ tracked_uavs' = LabelsInOrder'
        /\ \A a, b \in tracked_uavs' : a[2] = b[2] => a[1] = b[1]
        /\ get_lock_status(LockState').total_tracked_uavs = Len(evaluated') ]_vars

\* track id 1 was evaluated before track id 0, which therefore has the label
\* UAV_002, and a reset_lock has left the mapping as it was
C18_Witness ==
    /\ evaluated = <<1, 0>>
    /\ <<0, <<0, 0, 2>>>> \in tracked_uavs
    /\ lock_call.op = "reset_lock"
    /\ lock_call.op = "reset_lock"

\* C19: lock status output.  Whenever the status returned by update has a
\* non-null target track id, its uav label is the label bound to that track
\* id, for every track id including the first id 0.
C19_StatusLabel ==
    lock_call.op = "update" =>
        LET status == get_lock_status(LockState)
        IN status.target_id # NoTrack =>
               status.uav_id = DictGet(tracked_uavs, status.target_id)

\* the same for the track ids other than 0
StatusLabelNonZero ==
    (lock_call.op = "update" /\ current_target_id \notin {NoTrack, 0}) =>
        get_lock_status(LockState).uav_id = DictGet(tracked_uavs, current_target_id)

\* C21: kamikaze progression.  Once a QR read has succeeded the
\* qr_read_successful flag stays true until reset().  An update emits the
\* dive vector ('Approaching target') only while the flag is unset and the
\* altitude is above 0; with the flag set its vector is the pure vertical
\* ascent while the altitude is below min_altitude and the zero vector from
\* min_altitude on; with the flag unset and the altitude at or below 0 it is
\* the zero vector ('Reached ground level').  No update that starts with the
\* flag set emits a dive vector.
C21_KamikazeProgression ==
    [][ /\ (qr_read_successful /\ kamikaze_call'.op # "reset") => qr_read_successful'
        /\ kamikaze_call'.op = "update" =>
             LET c == kamikaze_call'
                 altitude == c.position[3]
                 dive == c.message = "Approaching target"
             IN /\ dive <=> (~qr_read_successful' /\ altitude > 0)
                /\ dive => ~qr_read_successful
                /\ c.vector[3] < 0 => dive
                /\ (qr_read_successful' /\ altitude < MinAltitude)
                      => c.vector = <<0, 0, 1000>>
                /\ (qr_read_successful' /\ altitude >= MinAltitude)
                      => c.vector = ZeroVector
                /\ (~qr_read_successful' /\ altitude <= 0)
                      => (c.vector = ZeroVector /\ c.message = "Reached ground level")
      ]_vars

\* an update at exactly min_altitude, made with the flag set by an earlier
\* read and with no frame, answers with the zero vector
C21_Witness ==
    /\ kamikaze_call.op = "update"
    /\ qr_read_successful
    /\ kamikaze_call.frame = None
    /\ kamikaze_call.position[3] = MinAltitude
    /\ kamikaze_call.message = "Reached safe altitude"

\* the PENDING missions than which no PENDING mission is more urgent
MostUrgentPending == {p \in PendingIds : \A q \in PendingIds : ~MoreUrgent(q, p)}

\* C22: equal priority never preempts.  Whenever update() runs with a current
\* ACTIVE mission and the most urgent PENDING mission has the current
\* mission's priority level, the current mission stays current and ACTIVE and
\* every PENDING mission stays PENDING.
C22_EqualPriorityNeverPreempts ==
    [][(/\ Update
        /\ current_mission # 0
        /\ missions[current_mission].status = "ACTIVE"
        /\ MostUrgentPending # {}
        /\ \A p \in MostUrgentPending :
              missions[p].priority = missions[current_mission].priority)
       => (/\ current_mission' = current_mission
           /\ missions'[current_mission].status = "ACTIVE"
           /\ \A p \in PendingIds : missions'[p].status = "PENDING")]_vars

\* the same when every PENDING mission has the current mission's level
EqualPriorityOnly ==
    [][(/\ Update
        /\ current_mission # 0
        /\ missions[current_mission].status = "ACTIVE"
        /\ PendingIds # {}
        /\ \A p \in PendingIds :
              missions[p].priority = missions[current_mission].priority)
       => (/\ current_mission' = current_mission
           /\ missions'[current_mission].status = "ACTIVE"
           /\ \A p \in PendingIds : missions'[p].status = "PENDING")]_vars

\* C28: current-mission invariant.  After any sequence of create_mission,
\* update and update_mission_status calls, current_mission is null or a
\* mission of the active set whose status is ACTIVE, and no other mission has
\* the status ACTIVE.
C28_CurrentMissionInvariant ==
    /\ current_mission # 0 =>
          /\ current_mission \in SeqRange(active_missions)
          /\ missions[current_mission].status = "ACTIVE"
    /\ \A i \in 1..Len(missions) :
          missions[i].status = "ACTIVE" => i = current_mission

\* the mission states the main loop can be in
PipelineMissionStates == current_state \in {"IDLE", "ESCAPING"}

\* C23: mission-state reachability in the pipeline.  The mission state
\* machine consumes the lock status as well as QR commands, so that from IDLE
\* processed frames lead to TRACKING or LOCKED (from which a KAMIKAZE command
\* reaches KAMIKAZE and a LOCK command reaches LOCKING).  Stated on the frame
\* that must have had this effect: once the main loop has processed a frame on
\* which the lock evaluator reports is_locked = true, the mission state has
\* left IDLE.
C23_LockStatusConsumed ==
    (lock_call.op = "update" /\ get_lock_status(LockState).is_locked)
        => current_state # "IDLE"

\* no command of the main loop is ever accepted by the KAMIKAZE or LOCK guard
PipelineGuardsNeverHold ==
    (controller_call.op = "process_command"
       /\ controller_call.command \in {"KAMIKAZE", "LOCK"})
        => controller_call.result = "False"

\* C24: is_locked implies in-zone.  Whenever the status returned by update has
\* is_locked = true, the track set of that frame was non-empty and the
\* evaluated track's centroid was inside the lock zone on that frame.
C24_LockedImpliesInZone ==
    (lock_call.op = "update" /\ get_lock_status(LockState).is_locked)
        => (lock_call.tracks > 0 /\ lock_call.in_lock_zone)

\* the update that first declares the lock is an in-zone update
LockDeclaredInZone ==
    [][ (LockUpdate /\ ~is_locked /\ is_locked')
          => (lock_call'.tracks > 0 /\ lock_call'.in_lock_zone) ]_vars

\* what every update does to the counter, and what the counter at -3 implies
\* for the lock timer and the target association
HysteresisStep ==
    /\ lock_hysteresis' \in -3..5
    /\ lock_call'.in_lock_zone => lock_hysteresis' = Min(lock_hysteresis + 1, 5)
    /\ ~lock_call'.in_lock_zone => lock_hysteresis' = Max(lock_hysteresis - 1, -3)
    /\ lock_hysteresis' = -3 =>
          /\ lock_start_time' = NoTime
          /\ ~is_locked'
          /\ lock_duration' = 0
          /\ get_lock_status(LockState').lock_duration = 0
          /\ current_target_id' = NoTrack

\* C25: hysteresis invariant.  After every update -3 <= lock_hysteresis <= 5;
\* an update changes the counter by +1 (centroid inside the lock zone, capped
\* at 5) or by -1 (outside, or empty track set, floored at -3); and whenever
\* the counter is -3 after an update, lock_start_time is null, is_locked is
\* false, the lock duration is 0 and the target track id is null, while the
\* UAV label mapping keeps every entry it had (the update may have added the
\* entry of the track it evaluated).
C25_HysteresisInvariant ==
    [][ LockUpdate =>
          /\ HysteresisStep
          /\ lock_hysteresis' = -3 => tracked_uavs \subseteq tracked_uavs' ]_vars

\* C25 as stated: the same, with the UAV label mapping unchanged by an update
\* that leaves the counter at -3.
C25_MappingUnchanged ==
    [][ LockUpdate =>
          /\ HysteresisStep
          /\ lock_hysteresis' = -3 => tracked_uavs' = tracked_uavs ]_vars

\* an update that found a track outside the lock zone has brought the counter
\* to -3 and cleared a target association, with both labels still bound
C25_Witness ==
    /\ lock_call.op = "update"
    /\ lock_call.tracks = 1
    /\ lock_hysteresis = -3
    /\ current_target_id = NoTrack
    /\ lock_start_time = NoTime
    /\ Cardinality(tracked_uavs) = 2

\* C26: the lock timer belongs to one track.  Whenever a status returned for a
\* non-empty track set has a non-null target track id, that id is the id of
\* the track evaluated on that frame: in-zone frames of one track id are never
\* credited to a lock timer started for another.
C26_TimerBelongsToOneTrack ==
    (lock_call.op = "update" /\ lock_call.tracks > 0
       /\ get_lock_status(LockState).target_id # NoTrack)
        => get_lock_status(LockState).target_id = lock_call.obj_id


\* C27: no accrual while a zone is inactive: an update() adds to a zone's
\* total_violation_time less than the time since the reading kept in its
\* last_violation_check whenever the clock advanced with the zone inactive
\* in between, and the penalty points grow only by the zones' accrued time
C27_NoAccrualWhileInactive ==
    [][ NfzUpdate =>
          /\ \A z \in DOMAIN zones :
                inactive_elapsed[z] =>
                    zones'[z].total_violation_time - zones[z].total_violation_time
                        < now - zones[z].last_violation_check
          /\ total_penalty_points' - total_penalty_points =
                PenaltyPointsPerSecond
                  * SumOver([z \in DOMAIN zones |->
                               zones'[z].total_violation_time
                                 - zones[z].total_violation_time], DOMAIN zones) ]_vars

\* a zone that is inactive keeps its totals through update()
InactiveZoneKeepsTotals ==
    [][ NfzUpdate =>
          \A z \in DOMAIN zones :
              ~zones[z].is_active => zones'[z] = zones[z] ]_vars


\* C29: a matched track stays near its detection: after every update, each
\* track that the update matched to a detection is reported, and stored for
\* the next frame's distance matrix, with a centroid within max_distance of
\* the centroid of the detection it was matched to (whose bbox the reported
\* entry carries)
C29_MatchedTrackNearDetection ==
    [][ TrackerUpdate =>
          \A id \in matched_ids(TrackerState, frames'[Len(frames')]) :
              \E k \in 1..Len(tracker_call'.tracked_objects),
                 j \in 1..Len(objects') :
                  LET entry == tracker_call'.tracked_objects[k]
                  IN /\ entry.id = id
                     /\ objects'[j].id = id
                     /\ objects'[j].centroid = entry.centroid
                     /\ Dist2(entry.centroid, detection_centroid(entry))
                            <= MaxDistance * MaxDistance ]_vars

\* a matched track is reported under its id with the matched detection's bbox
\* and confidence, and with the centroid that is stored for it
MatchedTrackReported ==
    [][ TrackerUpdate =>
          \A id \in matched_ids(TrackerState, frames'[Len(frames')]) :
              \E k \in 1..Len(tracker_call'.tracked_objects),
                 j \in 1..Len(objects'),
                 d \in 1..Len(frames'[Len(frames')]) :
                  LET entry == tracker_call'.tracked_objects[k]
                      det == frames'[Len(frames')][d]
                  IN /\ entry.id = id
                     /\ objects'[j].id = id
                     /\ objects'[j].centroid = entry.centroid
                     /\ entry.bbox = det.bbox
                     /\ entry.confidence = det.confidence ]_vars


\* the guard of process_command for a command type in the current state
GuardAccepts(command_type) ==
    process_command(ControllerState,
                    [type |-> command_type, timestamp |-> now, parameters |-> {}],
                    now).result

\* C30: the cooldown counts only executed commands: in the main loop, when the
\* command returned last was rejected by the mission guard, the same command
\* presented again within the cooldown, with the guard now holding, is
\* returned by process_qr_data and executed by process_command
C30_CooldownCountsExecuted ==
    [][ (/\ MainQrCommand
         /\ qr_call'.text \notin MalformedTexts
         /\ last_command = TextType(qr_call'.text)
         /\ guard_result = "False"
         /\ now - last_command_time < CommandCooldown
         /\ GuardAccepts(last_command))
          => (/\ qr_call'.outcome = "command"
              /\ controller_call' = [op |-> "process_command",
                                     command |-> last_command,
                                     result |-> "True"]) ]_vars

\* a command that the guard rejected has set the cooldown's start like an
\* executed one: last_command and last_command_time are those of the newest
\* entry of the command history
RejectedCommandRecorded ==
    guard_result = "False" =>
        /\ Len(command_history) >= 1
        /\ command_history[Len(command_history)].type = last_command
        /\ command_history[Len(command_history)].timestamp = last_command_time


(***************************************************************************)
(* Claims about the tracker's assignment (SpecTracker).                    *)
(***************************************************************************)
\* the detections of the last update call
LastDetections == frames[Len(frames)]

\* the last call is an update made with at least one track and one detection
GreedyCase ==
    /\ tracker_call.op = "update"
    /\ Len(tracker_call.before) >= 1
    /\ Len(LastDetections) >= 1

\* the squared distance between a track stored before the call and a detection
BeforeDist(row, col) ==
    Dist2(tracker_call.before[row].centroid,
          detection_centroid(LastDetections[col]))

\* the first detection at the least distance from a track stored before the call
NearestDetection(row) ==
    CHOOSE col \in 1..Len(LastDetections) :
        /\ \A c \in 1..Len(LastDetections) : BeforeDist(row, col) <= BeforeDist(row, c)
        /\ \A c \in 1..(col - 1) : BeforeDist(row, c) > BeforeDist(row, col)

\* (track, detection) pairs of the last call: the track's entry in the result
\* carries the detection's bbox and confidence
AssignedPairs ==
    {p \in (1..Len(tracker_call.before)) \X (1..Len(LastDetections)) :
        \E k \in 1..Len(tracker_call.tracked_objects) :
            LET entry == tracker_call.tracked_objects[k]
            IN /\ entry.id = tracker_call.before[p[1]].id
               /\ entry.bbox = LastDetections[p[2]].bbox
               /\ entry.confidence = LastDetections[p[2]].confidence}

BeforeIds == {tracker_call.before[row].id : row \in 1..Len(tracker_call.before)}

\* tracks stored before the call, not assigned by it and still registered
SurvivingUnmatched ==
    {row \in 1..Len(tracker_call.before) :
        /\ \A p \in AssignedPairs : p[1] # row
        /\ tracker_call.before[row].id \in RegisteredIds}

TransitionEntry(s) ==
    [state |-> s, timestamp |-> now, previous_state |-> current_state]

\* C32: mission transition history.  Over update_state, process_command and
\* reset calls: a call that changes the state appends exactly one entry
\* {state, previous state, timestamp}, dropping the oldest entry when the
\* history already holds 100; the history never holds more than 100 entries;
\* a non-empty history ends with the current state and the controller's
\* previous state; a call other than reset that leaves the state as it was
\* appends nothing; and reset leaves IDLE with empty data and empty history.
C32_TransitionHistory ==
    [][ /\ (controller_call'.op # "reset" /\ current_state' # current_state)
            => state_history' =
                  IF Len(state_history) = StateHistoryCap
                  THEN Append(Tail(state_history), TransitionEntry(current_state'))
                  ELSE Append(state_history, TransitionEntry(current_state'))
        /\ Len(state_history') <= StateHistoryCap
        /\ state_history' # <<>>
            => /\ state_history'[Len(state_history')].state = current_state'
               /\ state_history'[Len(state_history')].previous_state = previous_state'
        /\ (controller_call'.op # "reset" /\ current_state' = current_state)
            => state_history' = state_history
        /\ controller_call'.op = "reset"
            => /\ current_state' = "IDLE"
               /\ mission_data' = {}
               /\ state_history' = <<>> ]_vars

\* ESCAPE was accepted with the history full: the oldest entry was dropped and
\* the history still holds 100 entries, the last one for ESCAPING
C32_Witness ==
    /\ controller_call = [op |-> "process_command", command |-> "ESCAPE",
                          result |-> "True"]
    /\ history_dropped >= 1
    /\ Len(state_history) = StateHistoryCap
    /\ state_history[StateHistoryCap].state = "ESCAPING"
    /\ current_state = "ESCAPING"

\* ESCAPE was accepted while ESCAPING and appended nothing
C32_EscapeWhileEscaping ==
    /\ controller_call = [op |-> "process_command", command |-> "ESCAPE",
                          result |-> "True"]
    /\ current_state = "ESCAPING"
    /\ state_history # <<>>
    /\ state_history[Len(state_history)].state = "ESCAPING"
    /\ history_dropped = MaxDropped


(***************************************************************************)
(* Claims about the manager's progress (SpecStarvation).                   *)
(***************************************************************************)
\* C33: no starvation once creation stops.  With update() called repeatedly
\* and every started mission eventually reported COMPLETED or FAILED, every
\* mission that is PENDING eventually becomes ACTIVE.
C33_NoStarvation ==
    \A i \in 1..MaxMissions :
        (Len(missions) >= i /\ missions[i].status = "PENDING")
            ~> (Len(missions) >= i /\ missions[i].status = "ACTIVE")

\* the first mission was started and finished, the second, which update()
\* ranks no higher than the first, is now the current one, and the third waits
C33_Witness ==
    /\ Len(missions) = 3
    /\ missions[1].status \in {"COMPLETED", "FAILED"}
    /\ missions[2].status = "ACTIVE"
    /\ current_mission = 2
    /\ PriorityValue(missions[2].priority) <= PriorityValue(missions[1].priority)
    /\ missions[3].status = "PENDING"
    /\ manager_call = "update"


(***************************************************************************)
(* Claims about the main loop (SpecPipeline).                              *)
(***************************************************************************)
\* the lock evaluator's hysteresis counter, timer, flag and target id
LockFields == <<lock_hysteresis, lock_start_time, is_locked, current_target_id>>

\* C34: lock evaluator frozen outside normal mode.  A frame of the main loop
\* on which the mission state is KAMIKAZE or ESCAPING leaves the lock
\* evaluator's hysteresis counter, timer, is_locked flag and target id as they
\* were; and once the state is ESCAPING it stays ESCAPING and the lock
\* evaluator is not updated again.
C34_LockFrozen ==
    [][ /\ (PipelineFrame /\ current_state' \in {"KAMIKAZE", "ESCAPING"})
            => UNCHANGED <<LockFields, lock_call>>
        /\ current_state = "ESCAPING"
            => /\ current_state' = "ESCAPING"
               /\ UNCHANGED <<LockFields, lock_call>> ]_vars

\* ESCAPE was accepted while the lock timer was running; the timer has since
\* passed the required lock time with the tracked object reported inside the
\* lock zone on the last frame, and no lock has been declared
C34_Witness ==
    /\ current_state = "ESCAPING"
    /\ lock_start_time # NoTime
    /\ now - lock_start_time >= RequiredLockTime
    /\ ~is_locked
    /\ Len(tracker_call.tracked_objects) >= 1
    /\ is_point_in_lock_zone(tracker_call.tracked_objects[1].centroid)
    /\ Len(frames) = MaxPipelineFrames


(***************************************************************************)
(* Claims about the servo controller's loop (SpecServo).                   *)
(***************************************************************************)
\* stop() was the calling thread's last call and it has returned
StopReturned == servo_main.pc = "idle" /\ servo_main.last_op = "stop"

\* C35: no actuation after stop.  Once stop() has returned, and until the
\* calling thread's next call, no step writes a pulse width to the actuator
\* interface or changes the current pan and tilt angles.
C35_NoActuationAfterStop ==
    [][ StopReturned => UNCHANGED <<current_pan, current_tilt, pulsewidth>> ]_vars

\* after stop() has returned the calling thread makes no step that writes the
\* current angles or a pulse width: start() and the first half of set_angles
\* leave them as they are
StopReturnedCallerWritesNothing ==
    [][ (StopReturned /\ servo_main' # servo_main)
            => UNCHANGED <<current_pan, current_tilt, pulsewidth>> ]_vars


(***************************************************************************)
(* Claims about zone containment (SpecNfz).                                *)
(***************************************************************************)
\* the horizontal distance from the position to the zone's centre is less
\* than the radius
StrictlyInside(pos, zone) == Dist2(pos, zone.center) < zone.radius * zone.radius

\* C36: strict containment for violations.  In every state, an update() made
\* now at any position reports an active zone as violated only when the
\* position is strictly inside its radius, and adds nothing to the violation
\* time of a zone whose radius the position is on or beyond.
C36_StrictContainment ==
    \A pos \in UavPositions, z \in DOMAIN zones :
        LET r == nfz_update(NfzState, pos, now)
        IN ~StrictlyInside(pos, zones[z]) =>
              /\ z \notin r.result.violated_zones
              /\ r.nfz.zones[z].total_violation_time = zones[z].total_violation_time

\* update() reports exactly the active zones whose radius the position is
\* inside or on
ClosedContainment ==
    \A pos \in UavPositions :
        nfz_update(NfzState, pos, now).result.violated_zones =
            {z \in DOMAIN zones :
                /\ zones[z].is_active
                /\ Dist2(pos, zones[z].center) <= zones[z].radius * zones[z].radius}


\* the current and target angles lie within the per-axis ranges, and the
\* pulses of the current angles within the pulse range
ServoRanges ==
    /\ current_pan \in PanAngleMin..PanAngleMax
    /\ current_tilt \in TiltAngleMin..TiltAngleMax
    /\ target_pan \in PanAngleMin..PanAngleMax
    /\ target_tilt \in TiltAngleMin..TiltAngleMax
    /\ PanPulse(current_pan) \in PulseMin..PulseMax
    /\ TiltPulse(current_tilt) \in PulseMin..PulseMax

\* thread k completes a tick whose targets are those it read at its start
TickWithUnchangedTarget(k) ==
    /\ k \in DOMAIN loops
    /\ loops[k].pc = "apply"
    /\ loops'[k].pc = "while"
    /\ loops[k].pan_writer = target_writers.pan
    /\ loops[k].tilt_writer = target_writers.tilt

\* C37: servo range invariant.  After every step the current and target angles
\* lie within their per-axis ranges and the pulses within the pulse range, and
\* a tick with an unchanged target moves each current angle by 0.3 of its
\* remaining difference to the target, toward it and not past it.
C37_ServoRangeInvariant ==
    [][ /\ ServoRanges'
        /\ \A k \in SeqRange(LoopThreads) :
              TickWithUnchangedTarget(k) =>
                  /\ current_pan' = current_pan + Smoothed(target_pan - current_pan)
                  /\ current_tilt' = current_tilt + Smoothed(target_tilt - current_tilt) ]_vars

\* the ranges alone hold after every step
ServoRangesHold == ServoRanges

\* with a single loop thread a tick moves by 0.3 of the remaining difference
SingleLoopSmoothing ==
    [][ \A k \in SeqRange(LoopThreads) :
          (TickWithUnchangedTarget(k) /\ Cardinality(DOMAIN loops) = 1) =>
              /\ current_pan' = current_pan + Smoothed(target_pan - current_pan)
              /\ current_tilt' = current_tilt + Smoothed(target_tilt - current_tilt) ]_vars


\* what update hands to detect_enemy_lock's decision, had it measured from
\* the our_position argument
ThreatFromArgument ==
    ThreatFrom(GetVector(escape_call.enemy_data.position),
               escape_call.enemy_data.direction, escape_call.our_position)

\* C38: escape threat detection uses the caller's own position.  An update
\* call reports escape = true exactly when the threat is closer than twice
\* safe_distance to the our_position argument and is above it, or heads
\* within 60 degrees of the vector toward it, or has no known heading.
C38_EscapeUsesOwnPosition ==
    escape_call.op = "update"
        => (escape_call.commands.escape <=> ThreatFromArgument)

\* update's report agrees with the our_position argument whenever enemy_data
\* carries that same position under 'our_position'
EscapeAgreesWhenDataCarriesPosition ==
    (/\ escape_call.op = "update"
     /\ escape_call.enemy_data.our_position = escape_call.our_position)
        => (escape_call.commands.escape <=> ThreatFromArgument)

\* an escape is reported for a threat that is far from the our_position argument
EscapeFromDistantThreat ==
    /\ escape_call.op = "update"
    /\ escape_call.commands.escape
    /\ ~ThreatFromArgument

\* the last call was calculate_camera_movement after the first call, with the
\* target inside the target zone and is_tracking already true
IdleCase ==
    /\ camera_call.op = "calculate"
    /\ camera_call.before.last_update_time # NoTime
    /\ is_target_in_zone(camera_call.target_position)
    /\ camera_call.before.is_tracking

\* C39: camera dead-zone.  After the first call, calculate_camera_movement
\* returns pan = tilt = 0 with in_zone = true whenever the target is inside
\* the dead-zone rectangle and is_tracking is already true, and then leaves
\* both PID states, last_update_time, the accumulated angles and the tracking
\* history unchanged; in every other case the returned pan and tilt rates lie
\* within +/-max_pan_rate and +/-max_tilt_rate.
C39_CameraDeadZone ==
    (camera_call.op = "calculate" /\ camera_call.before.last_update_time # NoTime)
        => IF IdleCase
           THEN /\ camera_call.commands.pan = 0
                /\ camera_call.commands.tilt = 0
                /\ camera_call.commands.in_zone
                /\ pan_pid = camera_call.before.pan_pid
                /\ tilt_pid = camera_call.before.tilt_pid
                /\ last_update_time = camera_call.before.last_update_time
                /\ current_pan_angle = camera_call.before.current_pan_angle
                /\ current_tilt_angle = camera_call.before.current_tilt_angle
                /\ tracking_history = camera_call.before.tracking_history
           ELSE /\ PanPid.min_output <= camera_call.commands.pan
                /\ camera_call.commands.pan <= PanPid.max_output
                /\ TiltPid.min_output <= camera_call.commands.tilt
                /\ camera_call.commands.tilt <= TiltPid.max_output

\* the camera idles in the zone after its PID loops have accumulated state
C39_Witness ==
    /\ IdleCase
    /\ camera_call.commands.in_zone
    /\ pan_pid.integral # 0
    /\ tilt_pid.integral # 0
    /\ tracking_history # <<>>

\* a rate was limited: the pan rate returned is max_pan_rate in magnitude
CameraRateLimited ==
    /\ camera_call.op = "calculate"
    /\ camera_call.before.last_update_time # NoTime
    /\ ~IdleCase
    /\ camera_call.commands.pan = PanPid.min_output

=============================================================================
